---- MODULE Spec2Model ----
(***************************************************************************)
(* POS-Sari: the sale / credit-ledger engine, the owner-scoped access      *)
(* policies and the role bootstrap.                                        *)
(*                                                                         *)
(* The store is the hosted relational database (tables products,           *)
(* customers, sales, sale_items, utang_ledger, user_roles with their       *)
(* triggers and row-level policies).  The clients are browser pages that   *)
(* call the store one statement at a time: every `await supabase...` of a  *)
(* handler is one store statement, and other clients' statements may run   *)
(* between two awaits of the same handler.                                 *)
(***************************************************************************)
EXTENDS Integers, Sequences, FiniteSets, TLC

(* ------------------------------ bounds -------------------------------- *)
\* number of sale headers the store accepts in a run with one till
MaxSales == 1
\* stock_qty of the first seeded product
MaxStock == 2
\* number of role-bootstrap requests issued in a run
MaxCalls == 3
\* rows the store holds at most in a run of direct requests (three are seeded)
MaxRows == 5
\* payment entries the ledger holds at most in a run
MaxPayments == 2

(* ----------------------------- universe ------------------------------- *)
Users == {"u1", "u2"}
NoUser == "none"
\* POS pages; both are sessions of the same shop account (two devices)
Clients == {"c1", "c2"}
ProductIds == {"A", "B"}
\* SQL NULL of an id column (ids are 1, 2, ...) and of a money column
NoId == 0
NoAmount == 0 - 1

PaymentTypes == {"cash", "utang"}
\* what the cashier types into "Cash Received" / "Customer Name"
CashInputs == {20, 100}
NameInputs == {"", "  ", "Maria", " maria "}

\* String.prototype.trim and toLowerCase on the names the model uses
trim(s) ==
  CASE s = " maria " -> "maria"
    [] s = "  " -> ""
    [] OTHER -> s

toLowerCase(s) ==
  CASE s = "Maria" -> "maria"
    [] s = " maria " -> " maria "
    [] OTHER -> s

VARIABLES
  \* ---- store tables ----
  products,      \* id -> row of public.products
  customers,     \* set of rows of public.customers
  sales,         \* set of rows of public.sales
  sale_items,    \* set of rows of public.sale_items
  utang_ledger,  \* set of rows of public.utang_ledger
  user_roles,    \* set of rows of public.user_roles
  \* ---- POS page (one per client) ----
  user,          \* useAuth().user of the page
  posProducts,   \* useState products: rows of the last fetchProducts
  posCustomers,  \* useState customers
  cart,          \* useState cart: sequence of [product, quantity]
  pc,            \* where the page's handleCheckout is
  co,            \* what the running handleCheckout closed over / holds
  fetching,      \* a fetchProducts request is under way
  \* ---- Transactions page ----
  txSales,       \* useState sales: rows of the last fetchSales
  selected,      \* useState selected: id of the sale whose details are open
  saleItems,     \* useState saleItems: rows read by viewSale
  \* ---- role bootstrap requests ----
  calls,         \* request id -> state of one bootstrap request
  \* ---- the store's request interface ----
  policies,      \* names of the row-level policies in force
  response,      \* the last request a principal sent and the store's answer
  \* ---- Customers / UtangPayments pages (one of each) ----
  pgCustomers,   \* useState customers: rows of the last list load, with balance
  selectedCustomer, \* useState selectedCustomer / selected: a copy of a list row
  utangRecords,  \* useState utangRecords: rows of the last fetchUtang
  stats,         \* Dashboard useState stats: its totalReceivables
  loading,       \* the reads a page has started and not yet received
  \* ---- accounts ----
  auth_users,    \* set of rows of auth.users
  profiles,      \* set of rows of public.profiles
  \* ---- AuthProvider ----
  session,       \* useState session / user: the signed-in principal
  role,          \* useState role
  displayName,   \* useState displayName
  ensuring,      \* the runs of ensureRole under way, each with its position
  \* ---- Products page ----
  pgProducts,    \* useState products: rows of the last fetchProducts
  editing,       \* useState editing: the list row whose form is open
  pgFetching,    \* a fetchProducts request of the page is under way
  pinUnlocked,   \* useState pinUnlocked
  showPinDialog, \* useState showPinDialog
  pendingEditProduct, \* useState pendingEditProduct: a list row or null
  pinError,      \* useState pinError: the message under the PIN field
  pinInput       \* useState pinInput: what the PIN field holds

storeVars == <<products, customers, sales, sale_items, utang_ledger, user_roles>>
posVars == <<user, posProducts, posCustomers, cart, pc, co, fetching>>
txVars == <<txSales, selected, saleItems>>
aclVars == <<policies, response>>
pageVars == <<pgCustomers, selectedCustomer, utangRecords, loading, stats>>
authVars == <<auth_users, profiles, session, role, displayName, ensuring>>
prodVars == <<pgProducts, editing, pgFetching,
              pinUnlocked, showPinDialog, pendingEditProduct, pinError, pinInput>>
vars == <<products, customers, sales, sale_items, utang_ledger, user_roles,
          user, posProducts, posCustomers, cart, pc, co, fetching,
          txSales, selected, saleItems, calls,
          policies, response,
          pgCustomers, selectedCustomer, utangRecords, loading, stats,
          auth_users, profiles, session, role, displayName, ensuring,
          pgProducts, editing, pgFetching,
          pinUnlocked, showPinDialog, pendingEditProduct, pinError, pinInput>>

(* ------------------------- row-level policies ------------------------- *)
\* "Users read own products": USING (owner_user_id = auth.uid())
UsersReadOwnProducts(uid) ==
  {products[p] : p \in {q \in DOMAIN products : products[q].owner_user_id = uid}}

\* "Users read own customers": USING (owner_user_id = auth.uid())
UsersReadOwnCustomers(uid) ==
  {c \in customers : c.owner_user_id = uid}

\* "Read own or admin sales"
ReadOwnOrAdminSales(uid) ==
  {s \in sales : s.cashier_id = uid
                 \/ [user_id |-> uid, role |-> "admin"] \in user_roles}

\* "Authenticated insert sales": WITH CHECK (cashier_id = auth.uid())
AuthenticatedInsertSales(uid, row) ==
  uid # NoUser /\ row.cashier_id = uid

\* "Insert sale items": the sale exists and is the caller's (or caller is admin)
InsertSaleItemsPolicy(uid, row) ==
  \E s \in sales : /\ s.id = row.sale_id
                   /\ \/ s.cashier_id = uid
                      \/ [user_id |-> uid, role |-> "admin"] \in user_roles

\* "Users insert own customers": WITH CHECK (owner_user_id = auth.uid())
UsersInsertOwnCustomers(uid, row) ==
  uid # NoUser /\ row.owner_user_id = uid

\* an insert policy on the ledger that does not look at the customer
UsersInsertOwnUtang_anyCustomer(uid, row) ==
  /\ row.owner_user_id = uid
  /\ row.created_by = uid
  /\ \/ row.sale_id = NoId
     \/ \E s \in sales : s.id = row.sale_id /\ s.cashier_id = uid

\* "Users insert own utang"
UsersInsertOwnUtang(uid, row) ==
  /\ row.owner_user_id = uid
  /\ row.created_by = uid
  /\ \E c \in customers : c.id = row.customer_id /\ c.owner_user_id = uid
  /\ \/ row.sale_id = NoId
     \/ \E s \in sales : s.id = row.sale_id /\ s.cashier_id = uid

(* ---------------------- the policies in force ------------------------ *)
\* the policies the initial schema creates on products, customers, utang_ledger
InitialSchema ==
  {"Authenticated read products", "Admin manages products",
   "Admin updates products", "Admin deletes products",
   "Authenticated read customers", "Admin manages customers",
   "Admin updates customers", "Admin deletes customers",
   "Read utang", "Insert utang", "Admin updates utang", "Admin deletes utang"}

\* each migration as what its DROP POLICY / CREATE POLICY do to the set
allow_authenticated_insert_products(P) ==
  (P \ {"Admin manages products"}) \cup {"Authenticated add products"}

allow_authenticated_insert_customers(P) ==
  (P \ {"Admin manages customers"}) \cup {"Authenticated add customers"}

allow_authenticated_update_products(P) ==
  (P \ {"Admin updates products"}) \cup {"Authenticated update products"}

allow_authenticated_read_customers(P) ==
  (P \ {"Authenticated read customers"}) \cup {"Authenticated read customers"}

isolate_products_per_user(P) ==
  (P \ {"Authenticated read products", "Admin manages products",
        "Authenticated add products", "Admin updates products",
        "Authenticated update products", "Admin deletes products"})
  \cup {"Users read own products", "Users insert own products",
        "Users update own products", "Users delete own products"}

isolate_customers_and_utang_per_user(P) ==
  (P \ {"Authenticated read customers", "Admin manages customers",
        "Admin updates customers", "Admin deletes customers",
        "Read utang", "Insert utang", "Admin updates utang",
        "Admin deletes utang"})
  \cup {"Users read own customers", "Users insert own customers",
        "Users update own customers", "Users delete own customers",
        "Users read own utang", "Users insert own utang",
        "Users update own utang", "Users delete own utang"}

\* the migrations up to the isolation of products, in timestamp order (the
\* product-update migration precedes 162000, which drops its policy by name)
ProductsIsolated ==
  isolate_products_per_user(
    allow_authenticated_update_products(
      allow_authenticated_insert_customers(
        allow_authenticated_insert_products(InitialSchema))))

\* The migration that re-creates "Authenticated read customers" has no
\* timestamp in the sources: it ran before 170000 (which then dropped its
\* policy) or after it.
Migrated ==
  isolate_customers_and_utang_per_user(
    allow_authenticated_read_customers(ProductsIsolated))

PolicySets ==
  {Migrated,
   allow_authenticated_read_customers(
     isolate_customers_and_utang_per_user(ProductsIsolated))}

\* "Users insert own products": WITH CHECK (owner_user_id = auth.uid())
UsersInsertOwnProducts(uid, row) == row.owner_user_id = uid

\* "Users delete own products": USING (owner_user_id = auth.uid())
UsersDeleteOwnProducts(uid, row) == uid # NoUser /\ row.owner_user_id = uid

\* a foreign key declared ON DELETE CASCADE
fkey_cascade == "CASCADE"

\* sale_items.product_id UUID REFERENCES public.products(id) NOT NULL:
\* no ON DELETE clause
sale_items_product_id_fkey == "NO ACTION"

\* "Authenticated add customers": TO authenticated WITH CHECK (true)
AuthenticatedAddCustomers(uid, row) == uid # NoUser

\* an update policy that only has its USING clause
UsersUpdateOwn_usingOnly(uid, old, new) == old.owner_user_id = uid

\* "Users update own products" / "Users update own customers":
\* USING (owner_user_id = auth.uid()) WITH CHECK (owner_user_id = auth.uid())
UsersUpdateOwn(uid, old, new) ==
  old.owner_user_id = uid /\ new.owner_user_id = uid

\* "Users update own utang": USING (owner_user_id = auth.uid())
\* WITH CHECK (owner_user_id = auth.uid() AND created_by = auth.uid())
UsersUpdateOwnUtang(uid, old, new) ==
  old.owner_user_id = uid /\ new.owner_user_id = uid /\ new.created_by = uid

Tables == {"products", "customers", "utang_ledger"}

RowsOf(table) ==
  CASE table = "products" -> {products[p] : p \in DOMAIN products}
    [] table = "customers" -> customers
    [] table = "utang_ledger" -> utang_ledger

\* permissive policies of one command are OR-ed; all are TO authenticated
SelectAllowed(table, uid, row) ==
  /\ uid # NoUser
  /\ \/ /\ table = "products"
        /\ "Users read own products" \in policies
        /\ row.owner_user_id = uid
     \/ /\ table = "customers"
        /\ "Users read own customers" \in policies
        /\ row.owner_user_id = uid
     \/ /\ table = "customers"
        /\ "Authenticated read customers" \in policies
     \/ /\ table = "utang_ledger"
        /\ "Users read own utang" \in policies
        /\ row.owner_user_id = uid

Select(table, uid) == {row \in RowsOf(table) : SelectAllowed(table, uid, row)}

InsertAllowed(table, uid, row) ==
  /\ uid # NoUser
  /\ \/ /\ table = "products"
        /\ "Users insert own products" \in policies
        /\ UsersInsertOwnProducts(uid, row)
     \/ /\ table = "customers"
        /\ "Users insert own customers" \in policies
        /\ UsersInsertOwnCustomers(uid, row)
     \/ /\ table = "customers"
        /\ "Authenticated add customers" \in policies
        /\ AuthenticatedAddCustomers(uid, row)
     \/ /\ table = "utang_ledger"
        /\ "Users insert own utang" \in policies
        /\ UsersInsertOwnUtang(uid, row)

UpdateAllowed(table, uid, old, new) ==
  /\ uid # NoUser
  /\ \/ /\ table = "products"
        /\ "Users update own products" \in policies
        /\ UsersUpdateOwn(uid, old, new)
     \/ /\ table = "customers"
        /\ "Users update own customers" \in policies
        /\ UsersUpdateOwn(uid, old, new)
     \/ /\ table = "utang_ledger"
        /\ "Users update own utang" \in policies
        /\ UsersUpdateOwnUtang(uid, old, new)

(* ------------------------------ triggers ------------------------------ *)
\* a trigger that takes one unit per row, whatever the quantity
deduct_stock_on_sale_one(prods, new) ==
  IF new.product_id \in DOMAIN prods
  THEN [prods EXCEPT ![new.product_id].stock_qty = @ - 1]
  ELSE prods

\* AFTER INSERT ON sale_items FOR EACH ROW: stock_qty = stock_qty - NEW.quantity
deduct_stock_on_sale(prods, new) ==
  IF new.product_id \in DOMAIN prods
  THEN [prods EXCEPT ![new.product_id].stock_qty = @ - new.quantity]
  ELSE prods

\* the trigger fired for every row of one INSERT statement, in row order
RECURSIVE on_sale_item_insert(_, _)
on_sale_item_insert(prods, rows) ==
  IF rows = <<>> THEN prods
  ELSE on_sale_item_insert(deduct_stock_on_sale(prods, Head(rows)), Tail(rows))

(* ------------------------------ POS page ------------------------------ *)
\* the product grid lists only products with stock left
filtered(c) == {p \in posProducts[c] : p.stock_qty > 0}

HasLine(prev, productId) == \E i \in 1..Len(prev) : prev[i].product.id = productId

\* an addToCart that opens a new line on every click
addToCart_newLine(prev, product) ==
  Append(prev, [product |-> product, quantity |-> 1])

addToCart(prev, product) ==
  IF HasLine(prev, product.id)
  THEN LET existing == prev[CHOOSE i \in 1..Len(prev) : prev[i].product.id = product.id]
       IN IF existing.quantity >= product.stock_qty
          THEN prev
          ELSE [i \in 1..Len(prev) |->
                  IF prev[i].product.id = product.id
                  THEN [prev[i] EXCEPT !.quantity = @ + 1]
                  ELSE prev[i]]
  ELSE Append(prev, [product |-> product, quantity |-> 1])

updateQty(prev, productId, delta) ==
  [i \in 1..Len(prev) |->
     IF prev[i].product.id # productId THEN prev[i]
     ELSE LET newQty == prev[i].quantity + delta
          IN IF newQty <= 0 \/ newQty > prev[i].product.stock_qty
             THEN prev[i]
             ELSE [prev[i] EXCEPT !.quantity = newQty]]

RemoveLine(line, productId) == line.product.id # productId

removeFromCart(prev, productId) ==
  LET keep(line) == RemoveLine(line, productId) IN SelectSeq(prev, keep)

\* const subtotal = cart.reduce((sum, c) => sum + c.product.selling_price * c.quantity, 0)
RECURSIVE subtotal(_)
subtotal(crt) ==
  IF crt = <<>> THEN 0
  ELSE Head(crt).product.selling_price * Head(crt).quantity + subtotal(Tail(crt))

\* a till that hands out no change
change_none(paymentType, cashReceived, sub) == 0

\* const change = paymentType === 'cash' ? Math.max(0, cashReceived - subtotal) : 0
change(paymentType, cashReceived, sub) ==
  IF paymentType = "cash"
  THEN (IF cashReceived - sub > 0 THEN cashReceived - sub ELSE 0)
  ELSE 0

\* customers.find(c => c.full_name.trim().toLowerCase() === normalized.toLowerCase())
MatchingCustomers(c, name) ==
  {k \in posCustomers[c] : toLowerCase(trim(k.full_name)) = toLowerCase(trim(name))}

\* a row whose total is the unit price, the quantity forgotten
saleItemRow_unitTotal(saleId, line) ==
  [sale_id |-> saleId,
   product_id |-> line.product.id,
   product_name |-> line.product.name,
   quantity |-> line.quantity,
   price |-> line.product.selling_price,
   total |-> line.product.selling_price]

\* the rows handleCheckout builds from the cart for the sale_items insert
saleItemRow(saleId, line) ==
  [sale_id |-> saleId,
   product_id |-> line.product.id,
   product_name |-> line.product.name,
   quantity |-> line.quantity,
   price |-> line.product.selling_price,
   total |-> line.product.selling_price * line.quantity]

items(saleId, crt) == [i \in 1..Len(crt) |-> saleItemRow(saleId, crt[i])]

SeqRange(s) == {s[i] : i \in 1..Len(s)}

\* what a running handleCheckout still needs after its first await
NoCheckout == [paymentType |-> "cash", customerId |-> NoId, saleId |-> NoId]

(* ------------------------------- Init --------------------------------- *)
\* the catalog of the run: two of the sample products (prices 14 and 62) with
\* a small stock, owned by the shop account
SeedProduct(p) ==
  [id |-> p,
   name |-> p,
   selling_price |-> IF p = "A" THEN 14 ELSE 62,
   stock_qty |-> IF p = "A" THEN MaxStock ELSE 1,
   owner_user_id |-> "u1"]

InitStore(catalog) ==
  /\ products = [p \in catalog |-> SeedProduct(p)]
  /\ customers = {}
  /\ sales = {}
  /\ sale_items = {}
  /\ utang_ledger = {}
  /\ user_roles = {}

\* the POS page as mounted: useEffect(() => { fetchProducts(); fetchCustomers() }, [])
\* for the signed-in tills; a till nobody is signed in at has loaded nothing
InitPos(tills) ==
  /\ user = [c \in Clients |-> IF c \in tills THEN "u1" ELSE NoUser]
  /\ posProducts = [c \in Clients |-> UsersReadOwnProducts(user[c])]
  /\ posCustomers = [c \in Clients |-> UsersReadOwnCustomers(user[c])]
  /\ cart = [c \in Clients |-> <<>>]
  /\ pc = [c \in Clients |-> "idle"]
  /\ co = [c \in Clients |-> NoCheckout]
  /\ fetching = [c \in Clients |-> FALSE]

InitTx ==
  /\ txSales = {}
  /\ selected = NoId
  /\ saleItems = {}

NoRow == [id |-> NoId]
NoResponse ==
  [uid |-> NoUser, op |-> "none", table |-> "none", row |-> NoRow,
   rows |-> {}, ok |-> FALSE]

\* the policy set of the deployment; no request sent yet
InitApi(sets) ==
  /\ policies \in sets
  /\ response = NoResponse

\* the Customers page and the UtangPayments page
Pages == {"customers", "payments"}
NoCustomer == [id |-> NoId, totalBalance |-> 0]

\* no read under way
NotLoading == [list |-> "none", custData |-> {}, utang |-> NoId]

\* ---- accounts: auth.users and the profile its insert trigger creates ----
PinInputs == {"1234", "4321", "123"}
Salts == {"$2a$06$aa", "$2a$06$bb"}

\* pgcrypto's crypt(password, salt) for salts of gen_salt('bf'): the salt
\* followed by a digest from which the password cannot be read back
digest(pin) ==
  CASE pin = "1234" -> "Xq7"
    [] pin = "4321" -> "mK2"
    [] pin = "123" -> "e0T"
    [] OTHER -> "u5c"

\* crypt's second argument is a salt or a stored hash, of which it uses the
\* salt the hash begins with
salt_of(setting) ==
  IF setting \in Salts THEN setting
  ELSE CHOOSE s \in Salts :
         \E d \in {"Xq7", "mK2", "e0T", "u5c"} : setting = s \o d

crypt(pin, setting) == salt_of(setting) \o digest(pin)

\* CASE WHEN raw_pin <> '' THEN crypt(raw_pin, gen_salt('bf')) ELSE NULL END
product_pin_hash(raw_pin, salt) ==
  IF raw_pin # "" THEN crypt(raw_pin, salt) ELSE "NULL"

\* supabase.auth.signUp({ email, password,
\*   options: { data: { display_name: name, product_pin: productPin } } })
authUserRow(uid, name, productPin) ==
  [id |-> uid,
   raw_user_meta_data |-> [display_name |-> name, product_pin |-> productPin]]

\* AFTER INSERT ON auth.users FOR EACH ROW: the profile of the new account
handle_new_user(new, salt) ==
  [user_id |-> new.id,
   display_name |-> new.raw_user_meta_data.display_name,
   product_pin_hash |->
     product_pin_hash(new.raw_user_meta_data.product_pin, salt)]

\* useState of role: null
null == "null"

\* the AuthProvider as mounted without a stored session
InitProvider ==
  /\ session = NoUser
  /\ role = null
  /\ displayName = ""
  /\ ensuring = {}

\* the accounts of the principals in U, as their sign-up left them
InitAccounts(U) ==
  /\ auth_users = {authUserRow(u, u, "1234") : u \in U}
  /\ profiles = {handle_new_user(a, "$2a$06$aa") : a \in auth_users}
  /\ InitProvider

\* the Products page is not open
\* no product form is open
NoForm == [showForm |-> FALSE]
\* the add form is open: showForm with editing null
AddForm == [showForm |-> TRUE]
\* the PIN gate of a page that was just mounted
InitPin ==
  /\ pinUnlocked = FALSE
  /\ showPinDialog = FALSE
  /\ pendingEditProduct = NoForm
  /\ pinError = ""
  /\ pinInput = ""

InitProducts ==
  /\ pgProducts = {}
  /\ editing = NoForm
  /\ pgFetching = FALSE
  /\ InitPin

\* neither page is open
InitPages ==
  /\ pgCustomers = [g \in Pages |-> {}]
  /\ selectedCustomer = [g \in Pages |-> NoCustomer]
  /\ utangRecords = {}
  /\ stats = [totalReceivables |-> 0]
  /\ loading = [g \in Pages |-> NotLoading]

\* one till selling from the whole catalog
Init ==
  /\ InitStore(ProductIds)
  /\ InitPos({"c1"})
  /\ InitTx
  /\ calls = <<>>
  /\ InitApi({Migrated})
  /\ InitAccounts(Users)
  /\ InitProducts
  /\ InitPages

\* two tills of the same account selling the last unit of the same product
InitRace ==
  /\ InitStore({"B"})
  /\ InitPos(Clients)
  /\ InitTx
  /\ calls = <<>>
  /\ InitApi({Migrated})
  /\ InitAccounts(Users)
  /\ InitProducts
  /\ InitPages

(* --------------------------- cart handlers ---------------------------- *)
\* the cart buttons are behind the modal checkout / receipt dialogs while a
\* checkout runs or its receipt is shown
AddToCart(c) ==
  /\ pc[c] = "idle"
  /\ \E product \in filtered(c) :
       cart' = [cart EXCEPT ![c] = addToCart(cart[c], product)]
  /\ UNCHANGED <<storeVars, user, posProducts, posCustomers, pc, co, fetching,
                 txVars, calls,
                 aclVars, pageVars,
                 authVars, prodVars>>

UpdateQty(c) ==
  /\ pc[c] = "idle"
  /\ \E i \in 1..Len(cart[c]), delta \in {0 - 1, 1} :
       cart' = [cart EXCEPT ![c] = updateQty(cart[c], cart[c][i].product.id, delta)]
  /\ UNCHANGED <<storeVars, user, posProducts, posCustomers, pc, co, fetching,
                 txVars, calls,
                 aclVars, pageVars,
                 authVars, prodVars>>

RemoveFromCart(c) ==
  /\ pc[c] = "idle"
  /\ \E i \in 1..Len(cart[c]) :
       cart' = [cart EXCEPT ![c] = removeFromCart(cart[c], cart[c][i].product.id)]
  /\ UNCHANGED <<storeVars, user, posProducts, posCustomers, pc, co, fetching,
                 txVars, calls,
                 aclVars, pageVars,
                 authVars, prodVars>>

(* --------------------------- handleCheckout --------------------------- *)
\* Every store statement either succeeds or returns an error (policy or
\* constraint violation, transport failure); handleCheckout branches on it.
StoreOutcomes(canSucceed) == IF canSucceed THEN {TRUE, FALSE} ELSE {FALSE}

\* the run ends once the store holds MaxSales sale headers, and one more for
\* every further signed-in till
SaleCapacity == MaxSales + Cardinality({c \in Clients : user[c] # NoUser}) - 1

\* a sale header that fills the cash fields whatever the payment type
saleRow_cashAlways(c, paymentType, cashReceived, customerId) ==
  [id |-> Cardinality(sales) + 1,
   payment_type |-> paymentType,
   total |-> subtotal(cart[c]),
   cash_received |-> cashReceived,
   change_amount |-> change("cash", cashReceived, subtotal(cart[c])),
   customer_id |-> customerId,
   cashier_id |-> user[c]]

\* supabase.from('sales').insert({...}).select().single()
saleRow(c, paymentType, cashReceived, customerId) ==
  [id |-> Cardinality(sales) + 1,
   payment_type |-> paymentType,
   total |-> subtotal(cart[c]),
   cash_received |-> IF paymentType = "cash" THEN cashReceived ELSE NoAmount,
   change_amount |-> IF paymentType = "cash"
                     THEN change(paymentType, cashReceived, subtotal(cart[c]))
                     ELSE NoAmount,
   customer_id |-> IF paymentType = "utang" THEN customerId ELSE NoId,
   cashier_id |-> user[c]]

InsertSale(c, paymentType, cashReceived, customerId) ==
  LET row == saleRow(c, paymentType, cashReceived, customerId) IN
  \E ok \in StoreOutcomes(/\ Cardinality(sales) < SaleCapacity
                          /\ AuthenticatedInsertSales(user[c], row)) :
    IF ok
    THEN /\ sales' = sales \cup {row}
         /\ pc' = [pc EXCEPT ![c] = "items"]
         /\ co' = [co EXCEPT ![c] = [paymentType |-> paymentType,
                                     customerId |-> customerId,
                                     saleId |-> row.id]]
    ELSE \* if (saleError) { toast; return }
         /\ sales' = sales
         /\ pc' = [pc EXCEPT ![c] = "idle"]
         /\ co' = [co EXCEPT ![c] = NoCheckout]

\* supabase.from('customers').insert({ full_name }).select('id, full_name').single()
customerRow(c, name) ==
  [id |-> Cardinality(customers) + 1,
   full_name |-> trim(name),
   owner_user_id |-> user[c]]

InsertCustomer(c, name) ==
  LET row == customerRow(c, name) IN
  \E ok \in StoreOutcomes(UsersInsertOwnCustomers(user[c], row)) :
    IF ok
    THEN /\ customers' = customers \cup {row}
         /\ posCustomers' = [posCustomers EXCEPT ![c] = @ \cup {row}]
         /\ pc' = [pc EXCEPT ![c] = "sale"]
         /\ co' = [co EXCEPT ![c] = [paymentType |-> "utang",
                                     customerId |-> row.id,
                                     saleId |-> NoId]]
    ELSE \* if (newCustomerError || !newCustomer) { toast; return }
         /\ UNCHANGED <<customers, posCustomers, pc, co>>

\* validations that let every checkout through
InsufficientCash_unchecked(paymentType, cashReceived, sub) == FALSE
MissingCustomerName_unchecked(paymentType, name) == FALSE

\* if (paymentType === 'cash' && Number(cashReceived) < subtotal)
\*   { toast 'Insufficient cash'; return }
InsufficientCash(paymentType, cashReceived, sub) ==
  paymentType = "cash" /\ cashReceived < sub

\* if (paymentType === 'utang' && !utangCustomerName.trim())
\*   { toast 'Enter customer name'; return }
MissingCustomerName(paymentType, name) ==
  paymentType = "utang" /\ trim(name) = ""

\* "Complete Sale" with what the form holds: the validations (a refusal only
\* shows a toast), then the handler's first store statement
handleCheckout(c, paymentType, cashReceived, name) ==
  /\ pc[c] = "idle"
  /\ Len(cart[c]) # 0
  /\ ~InsufficientCash(paymentType, cashReceived, subtotal(cart[c]))
  /\ ~MissingCustomerName(paymentType, name)
  /\ IF paymentType = "utang" /\ MatchingCustomers(c, name) = {}
     THEN /\ InsertCustomer(c, name)
          /\ UNCHANGED sales
     ELSE /\ \E customerId \in
                (IF paymentType = "utang"
                 THEN {k.id : k \in MatchingCustomers(c, name)}
                 ELSE {NoId}) :
               InsertSale(c, paymentType, cashReceived, customerId)
          /\ UNCHANGED <<customers, posCustomers>>
  /\ UNCHANGED <<products, sale_items, utang_ledger, user_roles,
                 user, posProducts, cart, fetching, txVars, calls,
                 aclVars, pageVars,
                 authVars, prodVars>>

CheckoutBegin(c) ==
  \E paymentType \in PaymentTypes, cashReceived \in CashInputs,
     name \in NameInputs :
    handleCheckout(c, paymentType, cashReceived, name)

\* the sale insert of a credit checkout that first created its customer
CheckoutSale(c) ==
  /\ pc[c] = "sale"
  /\ InsertSale(c, "utang", 0, co[c].customerId)
  /\ UNCHANGED <<products, customers, sale_items, utang_ledger, user_roles,
                 user, posProducts, posCustomers, cart, fetching, txVars, calls,
                 aclVars, pageVars,
                 authVars, prodVars>>

\* setLastSale(sale); setShowCheckout(false); setShowReceipt(true); fetchProducts()
ShowReceipt(c) ==
  /\ pc' = [pc EXCEPT ![c] = "receipt"]
  /\ fetching' = [fetching EXCEPT ![c] = TRUE]

\* supabase.from('sale_items').insert(items): one statement, its trigger
\* included; then the ledger insert follows for a credit sale
CheckoutItems(c) ==
  /\ pc[c] = "items"
  /\ LET rows == items(co[c].saleId, cart[c]) IN
     \E ok \in StoreOutcomes(\A i \in 1..Len(rows) :
                                /\ InsertSaleItemsPolicy(user[c], rows[i])
                                /\ rows[i].product_id \in DOMAIN products) :
       IF ok
       THEN /\ sale_items' = sale_items \cup SeqRange(rows)
            /\ products' = on_sale_item_insert(products, rows)
            /\ IF co[c].paymentType = "utang" /\ co[c].customerId # NoId
               THEN /\ pc' = [pc EXCEPT ![c] = "ledger"]
                    /\ UNCHANGED fetching
               ELSE ShowReceipt(c)
            /\ UNCHANGED co
       ELSE \* if (itemsError) { toast; return }
            /\ pc' = [pc EXCEPT ![c] = "idle"]
            /\ co' = [co EXCEPT ![c] = NoCheckout]
            /\ UNCHANGED <<sale_items, products, fetching>>
  /\ UNCHANGED <<customers, sales, utang_ledger, user_roles,
                 user, posProducts, posCustomers, cart, txVars, calls,
                 aclVars, pageVars,
                 authVars, prodVars>>

\* await supabase.from('utang_ledger').insert({...}): the result is not read
ledgerRow(c) ==
  [id |-> Cardinality(utang_ledger) + 1,
   customer_id |-> co[c].customerId,
   sale_id |-> co[c].saleId,
   amount |-> subtotal(cart[c]),
   type |-> "credit",
   created_by |-> user[c],
   owner_user_id |-> user[c]]

CheckoutLedger(c) ==
  /\ pc[c] = "ledger"
  /\ \E ok \in StoreOutcomes(UsersInsertOwnUtang(user[c], ledgerRow(c))) :
       utang_ledger' = IF ok THEN utang_ledger \cup {ledgerRow(c)} ELSE utang_ledger
  /\ ShowReceipt(c)
  /\ UNCHANGED <<products, customers, sales, sale_items, user_roles,
                 user, posProducts, posCustomers, cart, co, txVars, calls,
                 aclVars, pageVars,
                 authVars, prodVars>>

\* the fetchProducts started by a completed checkout reaches the store
FetchProducts(c) ==
  /\ fetching[c]
  /\ posProducts' = [posProducts EXCEPT ![c] = UsersReadOwnProducts(user[c])]
  /\ fetching' = [fetching EXCEPT ![c] = FALSE]
  /\ UNCHANGED <<storeVars, user, posCustomers, cart, pc, co, txVars, calls,
                 aclVars, pageVars,
                 authVars, prodVars>>

\* "Done" / "Print" on the receipt
finishSale(c) ==
  /\ pc[c] = "receipt"
  /\ cart' = [cart EXCEPT ![c] = <<>>]
  /\ pc' = [pc EXCEPT ![c] = "idle"]
  /\ co' = [co EXCEPT ![c] = NoCheckout]
  /\ UNCHANGED <<storeVars, user, posProducts, posCustomers, fetching, txVars, calls,
                 aclVars, pageVars,
                 authVars, prodVars>>

\* the receipt dialog closed by Esc or a click outside it:
\* <Dialog open={showReceipt} onOpenChange={setShowReceipt}>; the cart and
\* lastSale stay as they are
dismissReceipt(c) ==
  /\ pc[c] = "receipt"
  /\ pc' = [pc EXCEPT ![c] = "idle"]
  /\ UNCHANGED <<storeVars, user, posProducts, posCustomers, cart, co,
                 fetching, txVars, calls, aclVars, pageVars,
                 authVars, prodVars>>

(* ------------------------- Transactions page -------------------------- *)
\* "Read sale items": rows whose sale the caller may read
ReadSaleItems(uid) ==
  {it \in sale_items : \E s \in ReadOwnOrAdminSales(uid) : s.id = it.sale_id}

\* the account the Transactions page is signed in with
TxUser == "u1"

\* supabase.from('sales').select('*')
fetchSales ==
  /\ txSales' = ReadOwnOrAdminSales(TxUser)
  /\ UNCHANGED <<storeVars, posVars, selected, saleItems, calls,
                 aclVars, pageVars,
                 authVars, prodVars>>

\* setSelected(sale); supabase.from('sale_items').select('*').eq('sale_id', sale.id)
\* (the page state once the read has answered)
viewSale ==
  /\ \E sale \in txSales :
       /\ selected' = sale.id
       /\ saleItems' = {it \in ReadSaleItems(TxUser) : it.sale_id = sale.id}
  /\ UNCHANGED <<storeVars, posVars, txSales, calls,
                 aclVars, pageVars,
                 authVars, prodVars>>

(* --------------------------- role bootstrap --------------------------- *)
Roles == {"admin", "cashier"}
\* how a bootstrap request reaches the store: the app's ensureRole (fetchRole,
\* then the ensure_my_role RPC), the RPC called directly, or the assign-role
\* edge function
Vias == {"app", "rpc", "edge"}

RolesOf(uid) == {r.role : r \in {x \in user_roles : x.user_id = uid}}

\* SELECT EXISTS (SELECT 1 FROM user_roles WHERE role = 'admin')
has_admin == \E r \in user_roles : r.role = "admin"

\* .select('role').eq('user_id', id).maybeSingle(): the row if there is exactly
\* one; null if there is none, and an error (data null) if there are several
maybeSingle(rows) == IF Cardinality(rows) = 1 THEN rows ELSE {}

\* a bootstrap that never hands out admin
assigned_role_cashier(hasAdmin) == "cashier"

\* CASE WHEN has_admin THEN 'cashier' ELSE 'admin' END
\* (!admins || admins.length === 0) ? "admin" : "cashier"
assigned_role(hasAdmin) == IF hasAdmin THEN "cashier" ELSE "admin"

SetCall(i, pcNew, roleNew, resultNew, wroteNew) ==
  calls' = [calls EXCEPT ![i] = [@ EXCEPT !.pc = pcNew, !.role = roleNew,
                                          !.result = resultNew,
                                          !.wrote = wroteNew]]

\* a signed-in principal starts a bootstrap; `had` notes whether the principal
\* had a role assignment when the request was made, `wrote` whether the
\* request has added a row to user_roles
EnsureStart(uid, via) ==
  /\ Len(calls) < MaxCalls
  /\ calls' = Append(calls, [uid |-> uid, via |-> via,
                             pc |-> IF via = "app" THEN "fetchRole" ELSE "existing",
                             role |-> "none", result |-> "none",
                             had |-> RolesOf(uid) # {}, wrote |-> FALSE])
  /\ UNCHANGED <<storeVars, posVars, txVars,
                 aclVars, pageVars,
                 authVars, prodVars>>

\* AuthContext ensureRole: const existingRole = await fetchRole(userId);
\* if (existingRole) return; else supabase.rpc('ensure_my_role')
ensureRole(i) ==
  /\ calls[i].pc = "fetchRole"
  /\ LET data == maybeSingle(RolesOf(calls[i].uid)) IN
       IF data # {}
       THEN \E r \in data : SetCall(i, "done", "none", r, FALSE)
       ELSE SetCall(i, "existing", "none", "none", FALSE)
  /\ UNCHANGED <<storeVars, posVars, txVars,
                 aclVars, pageVars,
                 authVars, prodVars>>

\* ensure_my_role: SELECT role INTO existing_role ... LIMIT 1;
\* IF existing_role IS NOT NULL THEN RETURN existing_role
ensure_my_role_existing(i) ==
  /\ calls[i].pc = "existing"
  /\ calls[i].via # "edge"
  /\ IF RolesOf(calls[i].uid) # {}
     THEN \E r \in RolesOf(calls[i].uid) : SetCall(i, "done", "none", r, FALSE)
     ELSE SetCall(i, "has_admin", "none", "none", FALSE)
  /\ UNCHANGED <<storeVars, posVars, txVars,
                 aclVars, pageVars,
                 authVars, prodVars>>

\* assign-role: existingRole = ...maybeSingle(); if (existingRole) return it
serve_existing(i) ==
  /\ calls[i].pc = "existing"
  /\ calls[i].via = "edge"
  /\ LET data == maybeSingle(RolesOf(calls[i].uid)) IN
       IF data # {}
       THEN \E r \in data : SetCall(i, "done", "none", r, FALSE)
       ELSE SetCall(i, "has_admin", "none", "none", FALSE)
  /\ UNCHANGED <<storeVars, posVars, txVars,
                 aclVars, pageVars,
                 authVars, prodVars>>

\* the admin-existence check of either implementation, a statement of its own
check_admin(i) ==
  /\ calls[i].pc = "has_admin"
  /\ SetCall(i, "insert", assigned_role(has_admin), "none", FALSE)
  /\ UNCHANGED <<storeVars, posVars, txVars,
                 aclVars, pageVars,
                 authVars, prodVars>>

roleRow(i) == [user_id |-> calls[i].uid, role |-> calls[i].role]

\* INSERT ... ON CONFLICT (user_id, role) DO NOTHING; RETURN assigned_role
ensure_my_role_insert(i) ==
  /\ calls[i].pc = "insert"
  /\ calls[i].via # "edge"
  /\ user_roles' = user_roles \cup {roleRow(i)}
  /\ SetCall(i, "done", calls[i].role, calls[i].role, roleRow(i) \notin user_roles)
  /\ UNCHANGED <<products, customers, sales, sale_items, utang_ledger, posVars, txVars,
                 aclVars, pageVars,
                 authVars, prodVars>>

\* .insert({ user_id, role }): UNIQUE (user_id, role) makes a duplicate an
\* error, answered with status 500
serve_insert(i) ==
  /\ calls[i].pc = "insert"
  /\ calls[i].via = "edge"
  /\ IF roleRow(i) \in user_roles
     THEN /\ SetCall(i, "done", calls[i].role, "error", FALSE)
          /\ UNCHANGED user_roles
     ELSE /\ user_roles' = user_roles \cup {roleRow(i)}
          /\ SetCall(i, "done", calls[i].role, calls[i].role, TRUE)
  /\ UNCHANGED <<products, customers, sales, sale_items, utang_ledger, posVars, txVars,
                 aclVars, pageVars,
                 authVars, prodVars>>

\* ---- bootstrap requests that carry no signed-in principal ----
\* what the request carries: no Authorization header at all, or the project's
\* public key, which names no user
Credentials == {"none", "anon"}

\* ensure_my_role: IF current_user_id IS NULL THEN RAISE EXCEPTION
\* 'Not authenticated'.  assign-role: authHeader.replace("Bearer ", "") on the
\* header (a TypeError without one, answered by the catch block with status
\* 500), then getUser(token): if (authError || !user) 401 "Unauthorized"
unauthenticated_result(via, credential) ==
  CASE via = "rpc" -> "Not authenticated"
    [] via = "edge" /\ credential = "anon" -> "Unauthorized"
    [] via = "edge" /\ credential = "none" -> "TypeError"

\* a bootstrap request without a signed-in principal, answered in one step
\* (the app itself calls ensureRole only with a session's user)
Unauthenticated(via, credential) ==
  /\ Len(calls) < MaxCalls
  /\ \A i \in 1..Len(calls) : calls[i].pc = "done"
  /\ calls' = Append(calls,
                     [uid |-> NoUser, via |-> via, pc |-> "done",
                      role |-> "none",
                      result |-> unauthenticated_result(via, credential),
                      had |-> FALSE, wrote |-> FALSE])
  /\ UNCHANGED <<storeVars, posVars, txVars, aclVars, pageVars,
                 authVars, prodVars>>

(* ------------------------------- sign-up ------------------------------ *)
\* /^\d{4}$/.test(secretPin)
FourDigits(pin) == pin \in {"1234", "4321"}

\* Auth page, "Create account": the form's checks, then supabase.auth.signUp;
\* the store inserts the auth.users row and, by its trigger, the profile
signUp(uid, name, productPin) ==
  /\ trim(name) # ""
  /\ FourDigits(productPin)
  /\ \E ok \in StoreOutcomes(\A a \in auth_users : a.id # uid),
        salt \in Salts :
       IF ok
       THEN LET new == authUserRow(uid, name, productPin) IN
            /\ auth_users' = auth_users \cup {new}
            /\ profiles' = profiles \cup {handle_new_user(new, salt)}
            /\ UNCHANGED <<session, role, displayName, ensuring>>
       ELSE UNCHANGED authVars
  /\ UNCHANGED <<storeVars, posVars, txVars, calls, aclVars, pageVars,
                 prodVars>>

(* ------------------- requests to the store's interface ---------------- *)
\* Any signed-in principal can send any row to the store's REST interface;
\* the row-level policies are the only check.  `ok` tells whether the
\* statement took effect.
Respond(uid, op, table, row, rows, ok) ==
  response' = [uid |-> uid, op |-> op, table |-> table, row |-> row,
               rows |-> rows, ok |-> ok]

\* rows the store holds in the tables requests can add to
StoreRows ==
  Cardinality(DOMAIN products) + Cardinality(customers) + Cardinality(sales)
    + Cardinality(sale_items) + Cardinality(utang_ledger)

\* select('*') on one of the owner-scoped tables
SelectRows(uid, table) ==
  /\ Respond(uid, "select", table, NoRow, Select(table, uid), TRUE)
  /\ UNCHANGED <<storeVars, posVars, txVars, calls, policies, pageVars,
                 authVars, prodVars>>

\* insert into products, the owner column given or left to its default
InsertProductRow(uid, owner) ==
  /\ StoreRows < MaxRows
  /\ \E p \in ProductIds \ DOMAIN products :
       LET row == [SeedProduct(p) EXCEPT !.owner_user_id = owner]
           ok == InsertAllowed("products", uid, row)
       IN /\ products' = IF ok
                         THEN [q \in DOMAIN products \cup {p} |->
                                 IF q = p THEN row ELSE products[q]]
                         ELSE products
          /\ Respond(uid, "insert", "products", row, {}, ok)
  /\ UNCHANGED <<customers, sales, sale_items, utang_ledger, user_roles,
                 posVars, txVars, calls, policies, pageVars,
                 authVars, prodVars>>

InsertCustomerRow(uid, owner) ==
  /\ StoreRows < MaxRows
  /\ LET row == [id |-> Cardinality(customers) + 1, full_name |-> "Maria",
                 owner_user_id |-> owner]
         ok == InsertAllowed("customers", uid, row)
     IN /\ customers' = IF ok THEN customers \cup {row} ELSE customers
        /\ Respond(uid, "insert", "customers", row, {}, ok)
  /\ UNCHANGED <<products, sales, sale_items, utang_ledger, user_roles,
                 posVars, txVars, calls, policies, pageVars,
                 authVars, prodVars>>

\* a cash sale of one unit at 14, paid with 20
InsertSaleRow(uid, cashier) ==
  /\ StoreRows < MaxRows
  /\ LET row == [id |-> Cardinality(sales) + 1, payment_type |-> "cash",
                 total |-> 14, cash_received |-> 20, change_amount |-> 6,
                 customer_id |-> NoId, cashier_id |-> cashier]
         ok == AuthenticatedInsertSales(uid, row)
     IN /\ sales' = IF ok THEN sales \cup {row} ELSE sales
        /\ Respond(uid, "insert", "sales", row, {}, ok)
  /\ UNCHANGED <<products, customers, sale_items, utang_ledger, user_roles,
                 posVars, txVars, calls, policies, pageVars,
                 authVars, prodVars>>

\* one line of one unit; product_id is a foreign key, checked without regard
\* to the policies on products, and the insert fires deduct_stock_on_sale
InsertSaleItemRow(uid, saleId, p) ==
  /\ StoreRows < MaxRows
  /\ LET row == saleItemRow(saleId, [product |-> products[p], quantity |-> 1])
         ok == InsertSaleItemsPolicy(uid, row) /\ row \notin sale_items
     IN /\ sale_items' = IF ok THEN sale_items \cup {row} ELSE sale_items
        /\ products' = IF ok THEN deduct_stock_on_sale(products, row) ELSE products
        /\ Respond(uid, "insert", "sale_items", row, {}, ok)
  /\ UNCHANGED <<customers, sales, utang_ledger, user_roles,
                 posVars, txVars, calls, policies, pageVars,
                 authVars, prodVars>>

InsertUtangRow(uid, owner, creator, customerId, saleId) ==
  /\ StoreRows < MaxRows
  /\ LET row == [id |-> Cardinality(utang_ledger) + 1,
                 customer_id |-> customerId, sale_id |-> saleId,
                 amount |-> 14, type |-> "credit",
                 created_by |-> creator, owner_user_id |-> owner]
         ok == InsertAllowed("utang_ledger", uid, row)
     IN /\ utang_ledger' = IF ok THEN utang_ledger \cup {row} ELSE utang_ledger
        /\ Respond(uid, "insert", "utang_ledger", row, {}, ok)
  /\ UNCHANGED <<products, customers, sales, sale_items, user_roles,
                 posVars, txVars, calls, policies, pageVars,
                 authVars, prodVars>>

\* update products set owner_user_id, stock_qty where id = p
UpdateProductRow(uid, p, owner, stock) ==
  /\ LET old == products[p]
         new == [old EXCEPT !.owner_user_id = owner, !.stock_qty = stock]
         ok == UpdateAllowed("products", uid, old, new)
     IN /\ products' = IF ok THEN [products EXCEPT ![p] = new] ELSE products
        /\ Respond(uid, "update", "products", new, {}, ok)
  /\ UNCHANGED <<customers, sales, sale_items, utang_ledger, user_roles,
                 posVars, txVars, calls, policies, pageVars,
                 authVars, prodVars>>

UpdateCustomerRow(uid, old, owner) ==
  /\ LET new == [old EXCEPT !.owner_user_id = owner]
         ok == UpdateAllowed("customers", uid, old, new)
     IN /\ customers' = IF ok THEN (customers \ {old}) \cup {new} ELSE customers
        /\ Respond(uid, "update", "customers", new, {}, ok)
  /\ UNCHANGED <<products, sales, sale_items, utang_ledger, user_roles,
                 posVars, txVars, calls, policies, pageVars,
                 authVars, prodVars>>

UpdateUtangRow(uid, old, owner, amount) ==
  /\ LET new == [old EXCEPT !.owner_user_id = owner, !.amount = amount]
         ok == UpdateAllowed("utang_ledger", uid, old, new)
     IN /\ utang_ledger' = IF ok THEN (utang_ledger \ {old}) \cup {new}
                           ELSE utang_ledger
        /\ Respond(uid, "update", "utang_ledger", new, {}, ok)
  /\ UNCHANGED <<products, customers, sales, sale_items, user_roles,
                 posVars, txVars, calls, policies, pageVars,
                 authVars, prodVars>>

(* ------------------ Customers and UtangPayments pages ----------------- *)
\* the account both pages are signed in with
PageUser == "u1"
\* what is typed into "Amount": Number('') is 0
PaymentInputs == {0, 50, 150}

\* balances[id] += u.type === 'credit' ? Number(u.amount) : -Number(u.amount)
RECURSIVE balances(_, _)
balances(utangData, id) ==
  IF utangData = {} THEN 0
  ELSE LET u == CHOOSE x \in utangData : TRUE
       IN (IF u.customer_id # id THEN 0
           ELSE IF u.type = "credit" THEN u.amount ELSE 0 - u.amount)
          + balances(utangData \ {u}, id)

\* a balance that is not cut off at zero
totalBalance_unclamped(utangData, id) == balances(utangData, id)

\* totalBalance: Math.max(0, balances[c.id] || 0)
totalBalance(utangData, id) ==
  IF balances(utangData, id) > 0 THEN balances(utangData, id) ELSE 0

\* the list rows: Customers keeps every customer, UtangPayments only those
\* with balance > 0 (its field is called balance)
withBalance(g, custData, utangData) ==
  LET all == {[id |-> c.id, full_name |-> c.full_name,
               totalBalance |-> totalBalance(utangData, c.id)] : c \in custData}
  IN IF g = "payments" THEN {c \in all : c.totalBalance > 0} ELSE all

\* fetchCustomers / fetchBalances, first statement: the customers read
fetchCustomers(g) ==
  /\ loading[g].list = "customers"
  /\ loading' = [loading EXCEPT ![g].list = "utang",
                                ![g].custData = Select("customers", PageUser)]
  /\ UNCHANGED <<storeVars, posVars, txVars, calls, aclVars, authVars, prodVars,
                 pgCustomers, selectedCustomer, utangRecords, stats>>

\* second statement: the ledger read, then setCustomers
setCustomers(g) ==
  /\ loading[g].list = "utang"
  /\ pgCustomers' = [pgCustomers EXCEPT ![g] =
       withBalance(g, loading[g].custData, Select("utang_ledger", PageUser))]
  /\ loading' = [loading EXCEPT ![g].list = "none", ![g].custData = {}]
  /\ UNCHANGED <<storeVars, posVars, txVars, calls, aclVars, authVars, prodVars,
                 selectedCustomer, utangRecords, stats>>

\* Customers: a click on a list row; setSelectedCustomer(c); fetchUtang(c.id)
selectCustomer ==
  /\ \E c \in pgCustomers["customers"] :
       /\ selectedCustomer' = [selectedCustomer EXCEPT !["customers"] =
                                 [id |-> c.id, totalBalance |-> c.totalBalance]]
       /\ loading' = [loading EXCEPT !["customers"].utang = c.id]
  /\ UNCHANGED <<storeVars, posVars, txVars, calls, aclVars, authVars, prodVars,
                 pgCustomers, utangRecords, stats>>

\* the read of fetchUtang answers: setUtangRecords(data || [])
fetchUtang ==
  /\ loading["customers"].utang # NoId
  /\ utangRecords' = {u \in Select("utang_ledger", PageUser) :
                        u.customer_id = loading["customers"].utang}
  /\ loading' = [loading EXCEPT !["customers"].utang = NoId]
  /\ UNCHANGED <<storeVars, posVars, txVars, calls, aclVars, authVars, prodVars,
                 pgCustomers, selectedCustomer, stats>>

\* UtangPayments: "Pay" on a list row; setSelected(c); setShowPayment(true)
Pay ==
  /\ \E c \in pgCustomers["payments"] :
       selectedCustomer' = [selectedCustomer EXCEPT !["payments"] =
                              [id |-> c.id, totalBalance |-> c.totalBalance]]
  /\ UNCHANGED <<storeVars, posVars, txVars, calls, aclVars, authVars, prodVars,
                 pgCustomers, utangRecords, stats, loading>>

\* the row handlePayment sends; owner_user_id is left to DEFAULT auth.uid()
paymentRow(g, amount) ==
  [id |-> Cardinality(utang_ledger) + 1,
   customer_id |-> selectedCustomer[g].id,
   sale_id |-> NoId,
   amount |-> amount,
   type |-> "payment",
   created_by |-> PageUser,
   owner_user_id |-> PageUser]

\* !selectedCustomer || amount <= 0 || amount > selectedCustomer.totalBalance
InvalidPaymentAmount(g, amount) ==
  \/ selectedCustomer[g] = NoCustomer
  \/ amount <= 0
  \/ amount > selectedCustomer[g].totalBalance

\* the payment dialog can be open: Customers shows its button while
\* selectedCustomer.totalBalance > 0, UtangPayments lists balances > 0 only
ShowPayment(g) ==
  selectedCustomer[g] # NoCustomer /\ selectedCustomer[g].totalBalance > 0

\* a payment that also takes the customer's credit sales out of the store
handlePayment_settling(g, amount) ==
  /\ ShowPayment(g)
  /\ ~InvalidPaymentAmount(g, amount)
  /\ Cardinality({u \in utang_ledger : u.type = "payment"}) < MaxPayments
  /\ InsertAllowed("utang_ledger", PageUser, paymentRow(g, amount))
  /\ utang_ledger' = utang_ledger \cup {paymentRow(g, amount)}
  /\ sales' = {x \in sales : x.customer_id # selectedCustomer[g].id}
  /\ selectedCustomer' = [selectedCustomer EXCEPT ![g] = NoCustomer]
  /\ loading' = [loading EXCEPT ![g].list = "customers", ![g].custData = {}]
  /\ UNCHANGED <<products, customers, sale_items, user_roles,
                 posVars, txVars, calls, aclVars, authVars, prodVars,
                 pgCustomers, utangRecords, stats>>

\* "Record Payment" / "Save Payment" in the payment dialog
handlePayment(g, amount) ==
  /\ ShowPayment(g)
  /\ LET row == paymentRow(g, amount) IN
     IF InvalidPaymentAmount(g, amount)
     THEN \* toast 'Invalid payment amount'; return
          UNCHANGED <<utang_ledger, selectedCustomer, loading>>
     ELSE \E ok \in StoreOutcomes(
                 /\ Cardinality({u \in utang_ledger : u.type = "payment"})
                      < MaxPayments
                 /\ InsertAllowed("utang_ledger", PageUser, row)) :
            IF ok
            THEN /\ utang_ledger' = utang_ledger \cup {row}
                 /\ IF g = "customers"
                    THEN \* fetchCustomers(); fetchUtang(id);
                         \* setSelectedCustomer(prev => prev - amount)
                         /\ loading' = [loading EXCEPT
                              ![g].list = "customers", ![g].custData = {},
                              ![g].utang = selectedCustomer[g].id]
                         /\ selectedCustomer' = [selectedCustomer EXCEPT
                              ![g].totalBalance = @ - amount]
                    ELSE \* setSelected(null); fetchBalances()
                         /\ loading' = [loading EXCEPT
                              ![g].list = "customers", ![g].custData = {}]
                         /\ selectedCustomer' = [selectedCustomer EXCEPT
                              ![g] = NoCustomer]
            ELSE \* if (error) { toast; return }
                 UNCHANGED <<utang_ledger, selectedCustomer, loading>>
  /\ UNCHANGED <<products, customers, sales, sale_items, user_roles,
                 posVars, txVars, calls, aclVars, authVars, prodVars, pgCustomers, utangRecords, stats>>

\* totalReceivables of both pages: customers.reduce((s, c) => s + c.totalBalance, 0)
RECURSIVE totalReceivables(_)
totalReceivables(list) ==
  IF list = {} THEN 0
  ELSE LET c == CHOOSE x \in list : TRUE
       IN c.totalBalance + totalReceivables(list \ {c})

(* ------------------------------ Dashboard ---------------------------- *)
\* (utangData || []).reduce((sum, u) =>
\*    sum + (u.type === 'credit' ? Number(u.amount) : -Number(u.amount)), 0)
RECURSIVE reduceReceivables(_)
reduceReceivables(utangData) ==
  IF utangData = {} THEN 0
  ELSE LET u == CHOOSE x \in utangData : TRUE
       IN (IF u.type = "credit" THEN u.amount ELSE 0 - u.amount)
          + reduceReceivables(utangData \ {u})

\* totalReceivables: Math.max(0, totalReceivables) in setStats
Dashboard_totalReceivables(utangData) ==
  IF reduceReceivables(utangData) > 0 THEN reduceReceivables(utangData) ELSE 0

\* fetchData, run when the dashboard is mounted: of its reads the ledger read,
\* and of stats the totalReceivables field
fetchData ==
  /\ stats' = [totalReceivables |->
                Dashboard_totalReceivables(Select("utang_ledger", PageUser))]
  /\ UNCHANGED <<storeVars, posVars, txVars, calls, aclVars, authVars, prodVars,
                 pgCustomers, selectedCustomer, utangRecords, loading>>

(* ---------------------------- Products page -------------------------- *)
\* what is typed into the form's name and selling price fields: the seeded
\* values, a new name with a new price, and a blank name
ProductForms ==
  {[name |-> "B", sellingPrice |-> 62],
   [name |-> "Bread", sellingPrice |-> 70],
   [name |-> "", sellingPrice |-> 70]}

\* const isAdmin = role === 'admin', the role being the principal's row of
\* user_roles
isAdmin == [user_id |-> PageUser, role |-> "admin"] \in user_roles

\* fetchProducts of the page: at mount and after every save or delete
fetchProducts ==
  /\ pgFetching
  /\ pgProducts' = UsersReadOwnProducts(PageUser)
  /\ pgFetching' = FALSE
  /\ UNCHANGED <<storeVars, posVars, txVars, calls, aclVars, pageVars,
                 authVars, editing,
                 pinUnlocked, showPinDialog, pendingEditProduct, pinError,
                 pinInput>>

\* openAdd: setEditing(null); the form emptied; setShowForm(true)
openAdd == editing' = AddForm

\* openEdit(p): setEditing(p); the form filled from the list row;
\* setShowForm(true)
openEdit(p) == editing' = p

\* "Add Product", pressed while no dialog covers the page
openAddWithPin ==
  /\ editing = NoForm
  /\ ~showPinDialog
  /\ IF pinUnlocked
     THEN /\ openAdd
          /\ UNCHANGED <<showPinDialog, pendingEditProduct, pinError, pinInput>>
     ELSE /\ pendingEditProduct' = NoForm
          /\ pinInput' = ""
          /\ pinError' = ""
          /\ showPinDialog' = TRUE
          /\ UNCHANGED editing
  /\ UNCHANGED <<storeVars, posVars, txVars, calls, aclVars, pageVars,
                 authVars, pgProducts, pgFetching, pinUnlocked>>

\* the pencil button of a listed product
openEditWithPin(p) ==
  /\ editing = NoForm
  /\ ~showPinDialog
  /\ p \in pgProducts
  /\ IF pinUnlocked
     THEN /\ openEdit(p)
          /\ UNCHANGED <<showPinDialog, pendingEditProduct, pinError, pinInput>>
     ELSE /\ pendingEditProduct' = p
          /\ pinInput' = ""
          /\ pinError' = ""
          /\ showPinDialog' = TRUE
          /\ UNCHANGED editing
  /\ UNCHANGED <<storeVars, posVars, txVars, calls, aclVars, pageVars,
                 authVars, pgProducts, pgFetching, pinUnlocked>>

\* public.verify_my_product_pin(_pin), auth.uid() being uid:
\* EXISTS (SELECT 1 FROM profiles p WHERE p.user_id = auth.uid()
\*   AND p.product_pin_hash IS NOT NULL
\*   AND p.product_pin_hash = crypt(_pin, p.product_pin_hash))
verify_my_product_pin(uid, _pin) ==
  \E p \in profiles :
    /\ p.user_id = uid
    /\ p.product_pin_hash # "NULL"
    /\ p.product_pin_hash = crypt(_pin, p.product_pin_hash)

\* a verification that unlocks whatever the answer of the rpc is
handleVerifyPin_unchecked ==
  /\ showPinDialog
  /\ pinUnlocked' = TRUE
  /\ showPinDialog' = FALSE
  /\ IF pendingEditProduct # NoForm
     THEN openEdit(pendingEditProduct) /\ pendingEditProduct' = NoForm
     ELSE openAdd /\ UNCHANGED pendingEditProduct
  /\ UNCHANGED <<storeVars, posVars, txVars, calls, aclVars, pageVars,
                 authVars, pgProducts, pgFetching, pinError, pinInput>>

\* "Unlock Product Access" or Enter in the PIN dialog, with its answer
handleVerifyPin ==
  /\ showPinDialog
  /\ \E error \in BOOLEAN :
       LET data == verify_my_product_pin(PageUser, pinInput) IN
       IF error
       THEN \* setPinError(error.message); return
            /\ pinError' = "error.message"
            /\ UNCHANGED <<pinUnlocked, showPinDialog, pendingEditProduct,
                           editing>>
       ELSE IF ~data
       THEN \* setPinError('Incorrect PIN'); return
            /\ pinError' = "Incorrect PIN"
            /\ UNCHANGED <<pinUnlocked, showPinDialog, pendingEditProduct,
                           editing>>
       ELSE /\ pinUnlocked' = TRUE
            /\ showPinDialog' = FALSE
            /\ IF pendingEditProduct # NoForm
               THEN openEdit(pendingEditProduct) /\ pendingEditProduct' = NoForm
               ELSE openAdd /\ UNCHANGED pendingEditProduct
            /\ UNCHANGED pinError
  /\ UNCHANGED <<storeVars, posVars, txVars, calls, aclVars, pageVars,
                 authVars, pgProducts, pgFetching, pinInput>>

\* the PIN dialog is dismissed: onOpenChange(false)
closePinDialog ==
  /\ showPinDialog
  /\ showPinDialog' = FALSE
  /\ pendingEditProduct' = NoForm
  /\ pinError' = ""
  /\ UNCHANGED <<storeVars, posVars, txVars, calls, aclVars, pageVars,
                 authVars, pgProducts, editing, pgFetching, pinUnlocked,
                 pinInput>>

\* a PIN is typed into the dialog's field: setPinInput(e.target.value)
setPinInput(value) ==
  /\ showPinDialog
  /\ pinInput' = value
  /\ UNCHANGED <<storeVars, posVars, txVars, calls, aclVars, pageVars,
                 authVars, pgProducts, editing, pgFetching,
                 pinUnlocked, showPinDialog, pendingEditProduct, pinError>>

\* the form is dismissed
closeForm ==
  /\ editing # NoForm
  /\ editing' = NoForm
  /\ UNCHANGED <<storeVars, posVars, txVars, calls, aclVars, pageVars,
                 authVars, pgProducts, pgFetching,
                 pinUnlocked, showPinDialog, pendingEditProduct, pinError,
                 pinInput>>

\* const payload = { name, ..., selling_price, stock_qty, ... }
payload(name, sellingPrice, stockQty) ==
  [name |-> name, selling_price |-> sellingPrice, stock_qty |-> stockQty]

\* "Save" on the form with what it holds: name and selling price as typed;
\* the stock as the edit form was filled, and the seeded stock typed into
\* the add form:
\* editing ? supabase.from('products').update(payload).eq('id', editing.id)
\*         : supabase.from('products').insert(payload)
handleSave(name, sellingPrice) ==
  /\ editing # NoForm
  /\ name # ""
  /\ IF editing = AddForm
     THEN \E p \in ProductIds \ DOMAIN products :
            LET pl == payload(name, sellingPrice, SeedProduct(p).stock_qty)
                row == [id |-> p, name |-> pl.name,
                        selling_price |-> pl.selling_price,
                        stock_qty |-> pl.stock_qty,
                        owner_user_id |-> PageUser]
            IN \E ok \in StoreOutcomes(InsertAllowed("products", PageUser, row)) :
                 IF ok
                 THEN /\ products' = [q \in DOMAIN products \cup {p} |->
                                        IF q = p THEN row ELSE products[q]]
                      /\ editing' = NoForm
                      /\ pgFetching' = TRUE
                 ELSE UNCHANGED <<products, editing, pgFetching>>
     ELSE LET pl == payload(name, sellingPrice, editing.stock_qty)
              found == editing.id \in DOMAIN products
              old == products[editing.id]
              new == [old EXCEPT !.name = pl.name,
                                 !.selling_price = pl.selling_price,
                                 !.stock_qty = pl.stock_qty]
              hit == found /\ UpdateAllowed("products", PageUser, old, new)
          IN \E ok \in {TRUE, FALSE} :
               IF ok
               THEN /\ products' = IF hit
                                   THEN [products EXCEPT ![editing.id] = new]
                                   ELSE products
                    /\ editing' = NoForm
                    /\ pgFetching' = TRUE
               ELSE \* if (error) { toast; return }
                    UNCHANGED <<products, editing, pgFetching>>
  /\ UNCHANGED <<customers, sales, sale_items, utang_ledger, user_roles,
                 posVars, txVars, calls, aclVars, pageVars, authVars,
                 pgProducts,
                 pinUnlocked, showPinDialog, pendingEditProduct, pinError,
                 pinInput>>

\* the bin button of a listed product, shown to an admin:
\* supabase.from('products').delete().eq('id', id)
handleDelete(id) ==
  /\ isAdmin
  /\ \E p \in pgProducts : p.id = id
  /\ LET hit == /\ id \in DOMAIN products
                /\ "Users delete own products" \in policies
                /\ UsersDeleteOwnProducts(PageUser, products[id])
         referencing == {it \in sale_items : it.product_id = id}
     IN \E ok \in StoreOutcomes(\/ ~hit
                                 \/ referencing = {}
                                 \/ sale_items_product_id_fkey = "CASCADE") :
          IF ok
          THEN /\ products' = IF hit
                              THEN [q \in DOMAIN products \ {id} |->
                                      products[q]]
                              ELSE products
               /\ sale_items' = IF hit THEN sale_items \ referencing
                                ELSE sale_items
               /\ pgFetching' = TRUE
          ELSE UNCHANGED <<products, sale_items, pgFetching>>
  /\ UNCHANGED <<customers, sales, utang_ledger, user_roles,
                 posVars, txVars, calls, aclVars, pageVars, authVars,
                 pgProducts, editing,
                 pinUnlocked, showPinDialog, pendingEditProduct, pinError,
                 pinInput>>

(* ----------------------------- AuthProvider -------------------------- *)
\* public.has_role(_user_id, _role)
has_role(uid, r) == [user_id |-> uid, role |-> r] \in user_roles

\* "Read own role": USING (auth.uid() = user_id OR has_role(auth.uid(), 'admin'))
ReadOwnRole(uid) ==
  {r \in user_roles : uid = r.user_id \/ has_role(uid, "admin")}

\* "Users read own profile":
\* USING (auth.uid() = user_id OR has_role(auth.uid(), 'admin'))
UsersReadOwnProfile(uid) ==
  {p \in profiles : uid = p.user_id \/ has_role(uid, "admin")}

\* the answer to fetchRole's request, sent with the session of `uid`:
\* .from('user_roles').select('role').eq('user_id', userId).maybeSingle()
\* is an error for several rows, and any request can fail
fetchRole_reply(uid, userId) ==
  LET rows == {r \in ReadOwnRole(uid) : r.user_id = userId}
  IN {[error |-> TRUE, data |-> null]}
     \cup IF Cardinality(rows) > 1 THEN {}
          ELSE IF rows = {} THEN {[error |-> FALSE, data |-> null]}
          ELSE {[error |-> FALSE, data |-> r.role] : r \in rows}

\* the answer to fetchProfile's request; its error is not read:
\* setDisplayName(data?.display_name || '')
fetchProfile_reply(uid, userId) ==
  LET rows == {p \in UsersReadOwnProfile(uid) : p.user_id = userId}
  IN {[error |-> TRUE, data |-> ""]}
     \cup IF Cardinality(rows) # 1 THEN {[error |-> FALSE, data |-> ""]}
          ELSE {[error |-> FALSE, data |-> p.display_name] : p \in rows}

\* supabase.auth.signInWithPassword succeeds; onAuthStateChange:
\* setSession(session); setUser(session.user);
\* setTimeout(() => ensureRole(session.user.id), 0)
signIn(uid) ==
  /\ session = NoUser
  /\ \E a \in auth_users : a.id = uid
  /\ Cardinality(ensuring) < MaxCalls
  /\ session' = uid
  /\ ensuring' = ensuring \cup {[userId |-> uid, pc |-> "ensureRole",
                                 reply |-> [error |-> FALSE, data |-> null]]}
  /\ UNCHANGED <<storeVars, posVars, txVars, calls, aclVars, pageVars,
                 prodVars, auth_users, profiles, role, displayName>>

\* supabase.auth.signOut(); onAuthStateChange without a session:
\* setSession(null); setUser(null); setRole(null); setDisplayName('')
signOut ==
  /\ session # NoUser
  /\ session' = NoUser
  /\ role' = null
  /\ displayName' = ""
  /\ UNCHANGED <<storeVars, posVars, txVars, calls, aclVars, pageVars,
                 prodVars, auth_users, profiles, ensuring>>

\* a run moves on: to position pcNew holding the answer to its next request
Await(run, pcNew, replyNew) ==
  ensuring' = (ensuring \ {run})
                \cup {[userId |-> run.userId, pc |-> pcNew, reply |-> replyNew]}

\* the timeout fires: ensureRole starts and fetchRole sends its request
ensureRole_start(run) ==
  /\ run.pc = "ensureRole"
  /\ \E reply \in fetchRole_reply(session, run.userId) :
       Await(run, "fetchRole", reply)
  /\ UNCHANGED <<storeVars, posVars, txVars, calls, aclVars, pageVars,
                 prodVars, auth_users, profiles, session, role, displayName>>

\* public.ensure_my_role() called with the session of `uid`, as one statement
\* of the store: 'Not authenticated' without a principal, the existing role,
\* or INSERT ... ON CONFLICT DO NOTHING of the assigned one
ensure_my_role(uid) ==
  IF uid = NoUser \/ RolesOf(uid) # {}
  THEN user_roles
  ELSE user_roles \cup {[user_id |-> uid, role |-> assigned_role(has_admin)]}

\* fetchRole after its await: if (error) return null; setRole(nextRole);
\* the role state is the one of the render, so it is kept on an error
fetchRole(reply) == IF reply.error THEN role ELSE reply.data

\* ensureRole after `await fetchRole(userId)`: with a role fetchProfile is
\* sent and ensureRole returns; without one the rpc is sent
ensureRole_existingRole(run) ==
  /\ run.pc = "fetchRole"
  /\ role' = fetchRole(run.reply)
  /\ IF ~run.reply.error /\ run.reply.data # null
     THEN /\ \E reply \in fetchProfile_reply(session, run.userId) :
               Await(run, "fetchProfile", reply)
          /\ UNCHANGED user_roles
     ELSE /\ user_roles' = ensure_my_role(session)
          /\ Await(run, "rpc", [error |-> session = NoUser, data |-> null])
  /\ UNCHANGED <<products, customers, sales, sale_items, utang_ledger,
                 posVars, txVars, calls, aclVars, pageVars,
                 prodVars, auth_users, profiles, session, displayName>>

\* ensureRole after `await supabase.rpc('ensure_my_role')`:
\* if (!error) { await fetchRole(userId); ... }
ensureRole_rpc(run) ==
  /\ run.pc = "rpc"
  /\ IF run.reply.error
     THEN ensuring' = ensuring \ {run}
     ELSE \E reply \in fetchRole_reply(session, run.userId) :
            Await(run, "fetchRole2", reply)
  /\ UNCHANGED <<storeVars, posVars, txVars, calls, aclVars, pageVars,
                 prodVars, auth_users, profiles, session, role, displayName>>

\* ensureRole after its second `await fetchRole(userId)`: fetchProfile is sent
ensureRole_fetchRole(run) ==
  /\ run.pc = "fetchRole2"
  /\ role' = fetchRole(run.reply)
  /\ \E reply \in fetchProfile_reply(session, run.userId) :
       Await(run, "fetchProfile", reply)
  /\ UNCHANGED <<storeVars, posVars, txVars, calls, aclVars, pageVars,
                 prodVars, auth_users, profiles, session, displayName>>

\* fetchProfile after its await: setDisplayName(data?.display_name || '')
fetchProfile(run) ==
  /\ run.pc = "fetchProfile"
  /\ displayName' = run.reply.data
  /\ ensuring' = ensuring \ {run}
  /\ UNCHANGED <<storeVars, posVars, txVars, calls, aclVars, pageVars,
                 prodVars, auth_users, profiles, session, role>>

(* ============================== claims =============================== *)
LinesOf(saleId) == {it \in sale_items : it.sale_id = saleId}

RECURSIVE SumTotals(_)
SumTotals(rows) ==
  IF rows = {} THEN 0
  ELSE LET r == CHOOSE x \in rows : TRUE IN r.total + SumTotals(rows \ {r})

RECURSIVE SumQuantity(_)
SumQuantity(rows) ==
  IF rows = {} THEN 0
  ELSE LET r == CHOOSE x \in rows : TRUE IN r.quantity + SumQuantity(rows \ {r})

\* units of product p on the given sale_items rows
QtyOf(rows, p) == SumQuantity({it \in rows : it.product_id = p})

\* a handleCheckout that has stored the header of this sale is still running
Running(saleId) == \E c \in Clients : pc[c] \in {"items", "ledger"} /\ co[c].saleId = saleId

\* C1: checkout is all-or-nothing: once the checkout that stored a sale header
\* has ended (completed or failed), the sale has its line items; a failed
\* line-item insert leaves no sale header behind.
C1_NoSaleWithoutLines ==
  \A s \in sales : ~Running(s.id) => LinesOf(s.id) # {}

\* C2: under any interleaving of concurrent checkouts on the same product, its
\* stored stock quantity is never negative.
C2_StockNeverNegative ==
  \A p \in DOMAIN products : products[p].stock_qty >= 0

\* C3: of N concurrent quantity-1 checkouts against a product with committed
\* stock K, no more than K commit: the units on committed line items never
\* exceed the stock the product had, because each commit checks the current
\* committed stock.
C3_AtMostStockCommits ==
  \A p \in DOMAIN products : QtyOf(sale_items, p) <= SeedProduct(p).stock_qty

\* C4: every credit sale (whose checkout has ended) has exactly one ledger
\* entry referencing it, of kind credit, for the sale total, the sale's
\* customer, created by the sale's cashier.
C4_CreditSaleHasLedgerEntry ==
  \A s \in sales :
    (s.payment_type = "utang" /\ ~Running(s.id)) =>
      /\ Cardinality({e \in utang_ledger : e.sale_id = s.id}) = 1
      /\ \A e \in utang_ledger :
           e.sale_id = s.id =>
             /\ e.type = "credit"
             /\ e.amount = s.total
             /\ e.customer_id = s.customer_id
             /\ e.created_by = s.cashier_id

\* C5: a checkout is never partially visible: the Transactions page never
\* shows a listed sale whose line items the store does not return.
C5_NoPartialSaleObserved ==
  selected # NoId => saleItems # {}

C7_StockDecreasedByQuantitySold ==
  [][sale_items' # sale_items =>
       \A p \in DOMAIN products :
         products'[p].stock_qty =
           products[p].stock_qty - QtyOf(sale_items' \ sale_items, p)]_vars

\* two units of A were sold on a one-line sale: A is down by two, B untouched
C7_Witness ==
  \E s \in sales :
    /\ LinesOf(s.id) # {}
    /\ \A it \in LinesOf(s.id) : it.product_id = "A" /\ it.quantity = 2
    /\ products["A"].stock_qty = SeedProduct("A").stock_qty - 2
    /\ products["B"].stock_qty = SeedProduct("B").stock_qty

\* C8: bootstrap calls alone never leave more than one principal with the
\* admin role, also when two principals without a role bootstrap concurrently.
C8_AtMostOneAdmin ==
  Cardinality({r \in user_roles : r.role = "admin"}) <= 1

\* C9: every principal has at most one role assignment, also when its
\* bootstrap runs twice concurrently.
C9_OneRolePerPrincipal ==
  \A uid \in Users : Cardinality(RolesOf(uid)) <= 1

\* C10: bootstrap is idempotent: a request made for a principal that already
\* had a role assignment adds nothing to the role table, and what it returns
\* is a role stored for that principal.
C10_Idempotent ==
  \A i \in 1..Len(calls) :
    calls[i].had =>
      /\ ~calls[i].wrote
      /\ calls[i].pc = "done" => calls[i].result \in RolesOf(calls[i].uid)

\* C11: when bootstrap calls run one after the other, the call of a principal
\* without a role assigns it admin if and only if no admin assignment exists at
\* that moment, cashier otherwise, and stores exactly that assignment.
C11_AdminIffNoAdminSequential ==
  [][\A i \in 1..Len(calls) :
       (~calls[i].had /\ calls[i].pc # "done" /\ calls'[i].pc = "done") =>
         LET given == [user_id |-> calls[i].uid,
                       role |-> IF has_admin THEN "cashier" ELSE "admin"]
         IN /\ calls'[i].result = given.role
            /\ given \notin user_roles
            /\ user_roles' = user_roles \cup {given}]_vars

\* the first principal was made admin, the second, through the edge function,
\* cashier
C11_Witness ==
  \E i, j \in 1..Len(calls) :
    /\ calls[i].pc = "done" /\ ~calls[i].had /\ calls[i].result = "admin"
    /\ calls[j].pc = "done" /\ ~calls[j].had /\ calls[j].result = "cashier"
    /\ calls[j].via = "edge"
    /\ user_roles = {[user_id |-> calls[i].uid, role |-> "admin"],
                     [user_id |-> calls[j].uid, role |-> "cashier"]}

\* C12: a principal never reads a product, customer or ledger entry owned by
\* another principal: every select on these tables answers with rows whose
\* owner is the requesting principal, under each policy set the migrations can
\* leave in force.
C12_ReadsOnlyOwnRows ==
  response.op = "select" =>
    \A row \in response.rows : row.owner_user_id = response.uid

\* C13: a line item that references a product the requesting principal does
\* not own is refused, and no request changes the stock quantity of a product
\* owned by a principal other than the requester.
C13_NoForeignStockChange ==
  [][/\ (/\ response'.op = "insert"
         /\ response'.table = "sale_items"
         /\ products[response'.row.product_id].owner_user_id # response'.uid)
          => ~response'.ok
     /\ \A p \in DOMAIN products :
          products'[p].stock_qty # products[p].stock_qty =>
            products[p].owner_user_id = response'.uid]_vars

\* C14: an insert into products, customers or the ledger takes effect only if
\* the row's owner is the inserting principal.
C14_InsertOwnerIsInserter ==
  (response.op = "insert" /\ response.table \in Tables /\ response.ok) =>
    response.row.owner_user_id = response.uid

\* what C15 requires of a ledger row sent by uid
LedgerRowAdmissible(uid, row) ==
  /\ \E k \in customers : k.id = row.customer_id /\ k.owner_user_id = uid
  /\ row.sale_id # NoId =>
       \E sl \in sales : sl.id = row.sale_id /\ sl.cashier_id = uid

\* C15: a ledger insert takes effect only if the referenced customer is owned
\* by the requesting principal and, when it references a sale, that sale's
\* cashier is the requesting principal; otherwise it is refused and the ledger
\* stays as it was.
C15_LedgerInsertChecksCustomerAndSale ==
  [][(response'.op = "insert" /\ response'.table = "utang_ledger") =>
       /\ response'.ok => LedgerRowAdmissible(response'.uid, response'.row)
       /\ response'.ok => utang_ledger' = utang_ledger \cup {response'.row}
       /\ ~LedgerRowAdmissible(response'.uid, response'.row) =>
            ~response'.ok /\ utang_ledger' = utang_ledger]_vars

\* a ledger row that references the requester's customer and the requester's
\* sale was accepted
C15_Witness ==
  /\ response.op = "insert"
  /\ response.table = "utang_ledger"
  /\ response.ok
  /\ response.row.sale_id # NoId
  /\ response.row \in utang_ledger
  /\ \E k \in customers : k.owner_user_id # response.uid

\* C16: the owner of a product, customer or ledger entry never changes: every
\* row that exists before and after a step has the same owner.
C16_OwnerFixed ==
  [][/\ \A p \in DOMAIN products :
          products'[p].owner_user_id = products[p].owner_user_id
     /\ \A old \in customers : \A new \in customers' :
          new.id = old.id => new.owner_user_id = old.owner_user_id
     /\ \A old \in utang_ledger : \A new \in utang_ledger' :
          new.id = old.id => new.owner_user_id = old.owner_user_id]_vars

\* the owner of a product changed its stock to 0, then tried to hand the
\* product to the other account and was refused
C16_Witness ==
  /\ response.op = "update"
  /\ response.table = "products"
  /\ ~response.ok
  /\ response.row.owner_user_id # response.uid
  /\ products[response.row.id].owner_user_id = response.uid
  /\ products[response.row.id].stock_qty = 0

\* entries of one kind a customer has in the ledger, summed
RECURSIVE SumAmounts(_)
SumAmounts(rows) ==
  IF rows = {} THEN 0
  ELSE LET r == CHOOSE x \in rows : TRUE IN r.amount + SumAmounts(rows \ {r})

SumOfKind(rows, id, kind) ==
  SumAmounts({u \in rows : u.customer_id = id /\ u.type = kind})

\* max(0, sum of credit entries - sum of payment entries)
DerivedBalance(rows, id) ==
  LET d == SumOfKind(rows, id, "credit") - SumOfKind(rows, id, "payment")
  IN IF d > 0 THEN d ELSE 0

LedgerBalance(id) == DerivedBalance(utang_ledger, id)

\* C17: a payment whose amount is not positive, or exceeds the customer's
\* balance as the ledger gives it when the payment is made, is never stored:
\* every payment entry a step adds has 0 < amount <= that balance.
C17_InvalidAmountNeverStored ==
  [][\A e \in utang_ledger' \ utang_ledger :
       e.type = "payment" =>
         0 < e.amount /\ e.amount <= LedgerBalance(e.customer_id)]_vars

\* C18: while the payment dialog is open, an amount with 0 < amount <= the
\* customer's ledger balance is accepted by the page, and the step that stores
\* such a payment adds exactly that one payment entry and lowers the ledger
\* balance by the amount.
C18_ValidPaymentRecorded ==
  [][/\ \A g \in Pages, amount \in PaymentInputs :
          (/\ ShowPayment(g)
           /\ 0 < amount
           /\ amount <= LedgerBalance(selectedCustomer[g].id))
            => ~InvalidPaymentAmount(g, amount)
     /\ \A e \in utang_ledger' \ utang_ledger :
          (/\ e.type = "payment"
           /\ 0 < e.amount
           /\ e.amount <= LedgerBalance(e.customer_id))
            => /\ utang_ledger' = utang_ledger \cup {e}
               /\ DerivedBalance(utang_ledger', e.customer_id)
                    = LedgerBalance(e.customer_id) - e.amount]_vars

C20_ShownBalanceIsLedgerBalance ==
  \A g \in Pages :
    selectedCustomer[g] # NoCustomer =>
      selectedCustomer[g].totalBalance = LedgerBalance(selectedCustomer[g].id)

\* C21: "Complete Sale" on a cash checkout whose cash received is below the
\* cart's subtotal takes no step at all: no statement is sent to the store, so
\* no customer, sale, line item, stock or ledger entry changes.
C21_InsufficientCashNoWrite ==
  \A c \in Clients, cashReceived \in CashInputs, name \in NameInputs :
    cashReceived < subtotal(cart[c]) =>
      ~ENABLED handleCheckout(c, "cash", cashReceived, name)

\* a cart of 28 or more at an idle till: 20 in cash is refused, 100 is taken
C21_Witness ==
  \E c \in Clients :
    /\ pc[c] = "idle"
    /\ subtotal(cart[c]) > 20
    /\ sales = {}
    /\ ~ENABLED handleCheckout(c, "cash", 20, "")
    /\ ENABLED handleCheckout(c, "cash", 100, "")

\* C22: every cash sale in the store records change = cash received - total,
\* with cash received >= total and change >= 0.
C22_CashChange ==
  \A s \in sales :
    s.payment_type = "cash" =>
      /\ s.change_amount = s.cash_received - s.total
      /\ s.cash_received >= s.total
      /\ s.change_amount >= 0

\* a cash sale of 90 paid with 100: change 10
C22_Witness ==
  \E s \in sales :
    /\ s.payment_type = "cash"
    /\ s.total = 90
    /\ s.cash_received = 100
    /\ s.change_amount = 10

\* C23: "Complete Sale" on a credit checkout whose customer name is empty after
\* trimming takes no step at all: no statement is sent to the store, so no
\* customer, sale, line item, stock or ledger entry changes.
C23_MissingNameNoWrite ==
  \A c \in Clients, cashReceived \in CashInputs, name \in NameInputs :
    trim(name) = "" =>
      ~ENABLED handleCheckout(c, "utang", cashReceived, name)

\* a filled cart at an idle till: a credit checkout is refused for the name of
\* two blanks and taken for " maria "
C23_Witness ==
  \E c \in Clients :
    /\ pc[c] = "idle"
    /\ cart[c] # <<>>
    /\ customers = {}
    /\ ~ENABLED handleCheckout(c, "utang", 20, "  ")
    /\ ENABLED handleCheckout(c, "utang", 20, " maria ")

\* C24: credit checkouts never leave two customers of one owner whose names
\* are equal after trimming and lower-casing.
C24_OneCustomerPerName ==
  \A k1 \in customers, k2 \in customers :
    (/\ k1.owner_user_id = k2.owner_user_id
     /\ toLowerCase(trim(k1.full_name)) = toLowerCase(trim(k2.full_name)))
      => k1 = k2

\* C29: a credit checkout shows its receipt only if every write of it
\* succeeded, the ledger insert included: the ledger then holds the entry of
\* the sale on the receipt.
C29_ReceiptOnlyAfterEveryWrite ==
  \A c \in Clients :
    (pc[c] = "receipt" /\ co[c].paymentType = "utang") =>
      /\ LinesOf(co[c].saleId) # {}
      /\ \E e \in utang_ledger : e.sale_id = co[c].saleId

\* C25: sale lines are value snapshots: no step, an edit of a product's name
\* or selling price and a deletion of a product included, changes or removes
\* a line item the store already holds (its product name, unit price and
\* total stay as recorded).
C25_SaleLinesKept ==
  [][sale_items \subseteq sale_items']_vars

\* a line sold as "B" at 62 whose product is now called "Bread" and costs 70
C25_Witness ==
  \E it \in sale_items :
    /\ it.product_name = "B" /\ it.price = 62 /\ it.total = 62
    /\ it.product_id \in DOMAIN products
    /\ products[it.product_id].name = "Bread"
    /\ products[it.product_id].selling_price = 70

\* the cart's subtotal at the selling prices the store holds now
RECURSIVE StoreSubtotal(_)
StoreSubtotal(crt) ==
  IF crt = <<>> THEN 0
  ELSE (IF Head(crt).product.id \in DOMAIN products
        THEN products[Head(crt).product.id].selling_price
        ELSE Head(crt).product.selling_price) * Head(crt).quantity
       + StoreSubtotal(Tail(crt))

\* C26: the total of every new sale is the cart's subtotal at the selling
\* prices the store holds when the checkout commits the sale, and the unit
\* price recorded on every new sale line is the product's selling price in
\* the store at that time.
C26_PriceAtCheckout ==
  [][/\ \A s \in sales' \ sales :
          \E c \in Clients : /\ pc[c] # "items" /\ pc'[c] = "items"
                             /\ s.total = StoreSubtotal(cart[c])
     /\ \A it \in sale_items' \ sale_items :
          it.product_id \in DOMAIN products =>
            it.price = products[it.product_id].selling_price]_vars

\* C27: a role bootstrap invoked without an authenticated principal is
\* answered with Unauthorized (the RPC's 'Not authenticated' exception, the
\* edge function's 401 "Unauthorized") and adds no role assignment.
C27_UnauthenticatedBootstrap ==
  /\ \A i \in 1..Len(calls) :
       calls[i].uid = NoUser =>
         /\ calls[i].pc = "done"
         /\ calls[i].result \in {"Unauthorized", "Not authenticated"}
         /\ ~calls[i].wrote
  /\ \A r \in user_roles : r.user_id # NoUser

\* C30: no stored field of an account, in its user metadata or in its
\* profile, holds the PIN submitted at sign-up; the profile holds its hash.
C30_PinNotInCleartext ==
  \A a \in auth_users :
    /\ ~FourDigits(a.raw_user_meta_data.product_pin)
    /\ \A p \in profiles :
         p.user_id = a.id =>
           /\ ~FourDigits(p.product_pin_hash)
           /\ p.product_pin_hash # a.raw_user_meta_data.product_pin

\* C28: the credit ledger is append-only: no step changes or removes an
\* entry the ledger already holds.
C28_LedgerAppendOnly ==
  [][utang_ledger \subseteq utang_ledger']_vars

\* C31: a bootstrap call whose insert finds its assignment already stored (a
\* concurrent call of the principal put it there) does not fail: it answers
\* with a role stored for the principal.
C31_DuplicateInsertIsAlreadyAssigned ==
  [][\A i \in 1..Len(calls) :
       (/\ calls[i].pc = "insert"
        /\ calls'[i].pc = "done"
        /\ roleRow(i) \in user_roles)
         => /\ calls'[i].result # "error"
            /\ calls'[i].result \in RolesOf(calls[i].uid)]_vars

\* C32: every stored sale has the cashier of the till that committed it; a
\* cash sale has cash received and change set and no customer reference, a
\* credit sale has a customer reference and neither cash received nor change.
C32_SaleFields ==
  [][/\ \A s \in sales' \ sales :
          \E c \in Clients : /\ pc[c] # "items" /\ pc'[c] = "items"
                             /\ s.cashier_id = user[c]
     /\ \A s \in sales' :
          /\ s.payment_type = "cash" =>
               /\ s.cash_received # NoAmount
               /\ s.change_amount # NoAmount
               /\ s.customer_id = NoId
          /\ s.payment_type = "utang" =>
               /\ s.customer_id # NoId
               /\ s.cash_received = NoAmount
               /\ s.change_amount = NoAmount]_vars

\* a credit sale of u1's till, to customer 1, without cash fields
C32_Witness ==
  \E s \in sales :
    /\ s.payment_type = "utang"
    /\ s.cashier_id = "u1"
    /\ s.customer_id = 1
    /\ s.cash_received = NoAmount

C34_PaymentTouchesOnlyLedger ==
  [][(\E e \in utang_ledger' \ utang_ledger : e.type = "payment") =>
       /\ sales' = sales
       /\ sale_items' = sale_items
       /\ products' = products]_vars

\* a payment recorded after the till sold the last B on credit
C34_Witness ==
  /\ \E e \in utang_ledger : e.type = "payment"
  /\ \E x \in sales : x.payment_type = "utang" /\ LinesOf(x.id) # {}
  /\ products["B"].stock_qty = 0

\* C36: for every customer, the payment entries of the ledger never add up to
\* more than the credit entries.
C36_PaymentsWithinCredits ==
  \A k \in customers :
    SumOfKind(utang_ledger, k.id, "payment")
      <= SumOfKind(utang_ledger, k.id, "credit")

\* C37: one filled cart produces at most one sale: a till does not commit a
\* sale header while it still holds the committed sale of the very cart it is
\* checking out (the sale of the receipt, whose line items are the cart's).
C37_OneSalePerCart ==
  [][\A c \in Clients :
       (pc[c] = "idle" /\ pc'[c] = "items") =>
         ~\E old \in sales :
            /\ old.id = co[c].saleId
            /\ LinesOf(old.id) = SeqRange(items(old.id, cart[c]))]_vars

\* C38: saving a product edit in which the stock field was left as the form
\* showed it does not change the product's stock in the store, so the
\* decrements of checkouts committed since the form was opened are kept.
C38_SaveKeepsStock ==
  [][(editing # NoForm /\ editing' = NoForm /\ products' # products) =>
       \A p \in DOMAIN products :
         products'[p].stock_qty = products[p].stock_qty]_vars

\* C40: whenever the dashboard and a customer list both show what the ledger
\* holds now, the dashboard's total receivables equal the list's total.
C40_SameReceivables ==
  \A g \in Pages :
    (/\ loading[g].list = "none"
     /\ pgCustomers[g] = withBalance(g, Select("customers", PageUser),
                                     Select("utang_ledger", PageUser))
     /\ stats.totalReceivables =
          Dashboard_totalReceivables(Select("utang_ledger", PageUser)))
      => stats.totalReceivables = totalReceivables(pgCustomers[g])

C39_SignedOutHasNoRole ==
  session = NoUser => (role = null /\ displayName = "")

(* --------------------------- specification ---------------------------- *)
NextPos ==
  \E c \in Clients :
    \/ AddToCart(c)
    \/ UpdateQty(c)
    \/ RemoveFromCart(c)
    \/ CheckoutBegin(c)
    \/ CheckoutSale(c)
    \/ CheckoutItems(c)
    \/ CheckoutLedger(c)
    \/ FetchProducts(c)
    \/ finishSale(c)

NextTx ==
  \/ NextPos
  \/ fetchSales
  \/ viewSale

\* one till
Spec == Init /\ [][NextPos]_vars

\* two tills racing for the same product
SpecRace == InitRace /\ [][NextPos]_vars

NextRole ==
  \/ \E uid \in Users, via \in Vias : EnsureStart(uid, via)
  \/ \E i \in 1..Len(calls) :
       \/ ensureRole(i)
       \/ ensure_my_role_existing(i)
       \/ serve_existing(i)
       \/ check_admin(i)
       \/ ensure_my_role_insert(i)
       \/ serve_insert(i)

\* nobody at a till: the role table and the bootstrap requests alone
InitRole ==
  /\ InitStore({})
  /\ InitPos({})
  /\ InitTx
  /\ calls = <<>>
  /\ InitApi({Migrated})
  /\ InitAccounts(Users)
  /\ InitProducts
  /\ InitPages

SpecRole == InitRole /\ [][NextRole]_vars

\* bootstrap requests served one after the other: a request is issued only
\* when every earlier one has been answered
StartAfterDone(uid, via) ==
  /\ \A i \in 1..Len(calls) : calls[i].pc = "done"
  /\ EnsureStart(uid, via)

NextRoleSeq ==
  \/ \E uid \in Users, via \in Vias : StartAfterDone(uid, via)
  \/ \E i \in 1..Len(calls) :
       \/ ensureRole(i)
       \/ ensure_my_role_existing(i)
       \/ serve_existing(i)
       \/ check_admin(i)
       \/ ensure_my_role_insert(i)
       \/ serve_insert(i)

SpecRoleSeq == InitRole /\ [][NextRoleSeq]_vars

\* one till and a Transactions page reading the store while it sells
SpecTx == Init /\ [][NextTx]_vars

\* two accounts sending requests to a store that holds rows of both
InitAcl ==
  /\ products = [p \in {"A"} |-> SeedProduct(p)]
  /\ customers = {[id |-> 1, full_name |-> "Maria", owner_user_id |-> "u1"],
                  [id |-> 2, full_name |-> "Maria", owner_user_id |-> "u2"]}
  /\ sales = {}
  /\ sale_items = {}
  /\ utang_ledger = {}
  /\ user_roles = {}
  /\ InitPos({})
  /\ InitTx
  /\ calls = <<>>
  /\ InitApi(PolicySets)
  /\ InitAccounts(Users)
  /\ InitProducts
  /\ InitPages

NextAcl ==
  \E uid \in Users :
    \/ \E table \in Tables : SelectRows(uid, table)
    \/ \E owner \in Users : InsertProductRow(uid, owner)
    \/ \E owner \in Users : InsertCustomerRow(uid, owner)
    \/ \E cashier \in Users : InsertSaleRow(uid, cashier)
    \/ \E s \in sales, p \in DOMAIN products : InsertSaleItemRow(uid, s.id, p)
    \/ \E owner \in Users, creator \in Users, k \in customers,
          saleId \in {NoId} \cup {s.id : s \in sales} :
         InsertUtangRow(uid, owner, creator, k.id, saleId)
    \/ \E p \in DOMAIN products, owner \in Users :
         \E stock \in {0, products[p].stock_qty} :
           UpdateProductRow(uid, p, owner, stock)
    \/ \E old \in customers, owner \in Users : UpdateCustomerRow(uid, old, owner)
    \/ \E old \in utang_ledger, owner \in Users :
         \E amount \in {old.amount, 1} : UpdateUtangRow(uid, old, owner, amount)

SpecAcl == InitAcl /\ [][NextAcl]_vars

\* Maria owes 90; a till sells the last unit of B (62) while the Customers
\* page or the UtangPayments page, just mounted on another device, takes her
\* payments
InitLedger ==
  /\ products = [p \in {"B"} |-> SeedProduct(p)]
  /\ customers = {[id |-> 1, full_name |-> "Maria", owner_user_id |-> "u1"]}
  /\ sales = {}
  /\ sale_items = {}
  /\ utang_ledger = {[id |-> 1, customer_id |-> 1, sale_id |-> NoId,
                      amount |-> 90, type |-> "credit",
                      created_by |-> "u1", owner_user_id |-> "u1"]}
  /\ user_roles = {}
  /\ InitPos({"c1"})
  /\ InitTx
  /\ calls = <<>>
  /\ InitApi({Migrated})
  /\ InitAccounts(Users)
  /\ InitProducts
  /\ pgCustomers = [g \in Pages |-> {}]
  /\ selectedCustomer = [g \in Pages |-> NoCustomer]
  /\ utangRecords = {}
  /\ stats = [totalReceivables |-> 0]
  /\ \E open \in Pages :
       loading = [g \in Pages |-> IF g = open
                                  THEN [NotLoading EXCEPT !.list = "customers"]
                                  ELSE NotLoading]

\* the till's steps; every name typed at the till is Maria's, who is in the
\* till's customer list, so its checkout never has a customer to create first
NextLedger ==
  \/ \E c \in Clients :
       \/ AddToCart(c)
       \/ UpdateQty(c)
       \/ RemoveFromCart(c)
       \/ CheckoutBegin(c)
       \/ CheckoutItems(c)
       \/ CheckoutLedger(c)
       \/ FetchProducts(c)
       \/ finishSale(c)
  \/ \E g \in Pages : fetchCustomers(g)
  \/ \E g \in Pages : setCustomers(g)
  \/ selectCustomer
  \/ fetchUtang
  \/ Pay
  \/ \E g \in Pages, amount \in PaymentInputs : handlePayment(g, amount)

SpecLedger == InitLedger /\ [][NextLedger]_vars


\* a till selling product B next to the Products page of the same principal,
\* who is admin; the page is loading its list and its PIN gate has been
\* unlocked
InitEdit ==
  /\ products = [p \in {"B"} |-> SeedProduct(p)]
  /\ customers = {}
  /\ sales = {}
  /\ sale_items = {}
  /\ utang_ledger = {}
  /\ user_roles = {[user_id |-> PageUser, role |-> "admin"]}
  /\ InitPos({"c1"})
  /\ InitTx
  /\ calls = <<>>
  /\ InitApi({Migrated})
  /\ InitAccounts(Users)
  /\ InitPages
  /\ pgProducts = {}
  /\ editing = NoForm
  /\ pgFetching = TRUE
  /\ pinUnlocked = TRUE
  /\ showPinDialog = FALSE
  /\ pendingEditProduct = NoForm
  /\ pinError = ""
  /\ pinInput = ""

NextEdit ==
  \/ NextPos
  \/ fetchProducts
  \/ closeForm
  \/ \E p \in pgProducts : openEditWithPin(p)
  \/ \E form \in ProductForms : handleSave(form.name, form.sellingPrice)
  \/ \E id \in ProductIds : handleDelete(id)

SpecEdit == InitEdit /\ [][NextEdit]_vars

\* nobody has an account yet: principals sign up, then bootstrap their role
\* one request after the other; requests without a principal come in between
InitAuth ==
  /\ InitStore({})
  /\ InitPos({})
  /\ InitTx
  /\ calls = <<>>
  /\ InitApi({Migrated})
  /\ auth_users = {}
  /\ profiles = {}
  /\ InitProvider
  /\ InitProducts
  /\ InitPages

\* a session exists only for an account
StartSignedUp(uid, via) ==
  /\ \E a \in auth_users : a.id = uid
  /\ StartAfterDone(uid, via)

NextAuth ==
  \/ \E uid \in Users, productPin \in PinInputs :
       \E name \in {uid, ""} : signUp(uid, name, productPin)
  \/ \E uid \in Users, via \in Vias : StartSignedUp(uid, via)
  \/ \E via \in Vias \ {"app"}, credential \in Credentials :
       Unauthenticated(via, credential)
  \/ \E i \in 1..Len(calls) :
       \/ ensureRole(i)
       \/ ensure_my_role_existing(i)
       \/ serve_existing(i)
       \/ check_admin(i)
       \/ ensure_my_role_insert(i)
       \/ serve_insert(i)

SpecAuth == InitAuth /\ [][NextAuth]_vars

\* two customers owing 90 each; one page open, and the dashboard
InitReceivables ==
  /\ products = [p \in {"B"} |-> SeedProduct(p)]
  /\ customers = {[id |-> 1, full_name |-> "Maria", owner_user_id |-> "u1"],
                  [id |-> 2, full_name |-> "Juan", owner_user_id |-> "u1"]}
  /\ sales = {}
  /\ sale_items = {}
  /\ utang_ledger = {[id |-> k, customer_id |-> k, sale_id |-> NoId,
                       amount |-> 90, type |-> "credit",
                       created_by |-> "u1", owner_user_id |-> "u1"] : k \in {1, 2}}
  /\ user_roles = {}
  /\ InitPos({"c1"})
  /\ InitTx
  /\ calls = <<>>
  /\ InitApi({Migrated})
  /\ InitAccounts(Users)
  /\ InitProducts
  /\ pgCustomers = [g \in Pages |-> {}]
  /\ selectedCustomer = [g \in Pages |-> NoCustomer]
  /\ utangRecords = {}
  /\ stats = [totalReceivables |-> 0]
  /\ \E open \in Pages :
       loading = [g \in Pages |-> IF g = open
                                  THEN [NotLoading EXCEPT !.list = "customers"]
                                  ELSE NotLoading]

NextReceivables ==
  \/ \E g \in Pages : fetchCustomers(g)
  \/ \E g \in Pages : setCustomers(g)
  \/ selectCustomer
  \/ fetchUtang
  \/ Pay
  \/ \E g \in Pages, amount \in PaymentInputs : handlePayment(g, amount)
  \/ fetchData

SpecReceivables == InitReceivables /\ [][NextReceivables]_vars

\* the Products page of the owner of product B, just opened: its list is
\* loading and its PIN gate is locked
InitGate ==
  /\ InitStore({"B"})
  /\ InitPos({})
  /\ InitTx
  /\ calls = <<>>
  /\ InitApi({Migrated})
  /\ InitAccounts(Users)
  /\ InitPages
  /\ pgProducts = {}
  /\ editing = NoForm
  /\ pgFetching = TRUE
  /\ InitPin

NextGate ==
  \/ fetchProducts
  \/ openAddWithPin
  \/ \E p \in pgProducts : openEditWithPin(p)
  \/ \E value \in PinInputs : setPinInput(value)
  \/ handleVerifyPin
  \/ closePinDialog
  \/ closeForm
  \/ \E form \in ProductForms : handleSave(form.name, form.sellingPrice)

SpecGate == InitGate /\ [][NextGate]_vars

\* the AuthProvider of one browser, mounted without a stored session; both
\* principals have an account and neither has a role yet
InitProviderSession ==
  /\ InitStore({})
  /\ InitPos({})
  /\ InitTx
  /\ calls = <<>>
  /\ InitApi({Migrated})
  /\ InitAccounts(Users)
  /\ InitProducts
  /\ InitPages

NextProvider ==
  \/ \E uid \in Users : signIn(uid)
  \/ signOut
  \/ \E run \in ensuring :
       \/ ensureRole_start(run)
       \/ ensureRole_existingRole(run)
       \/ ensureRole_rpc(run)
       \/ ensureRole_fetchRole(run)
       \/ fetchProfile(run)

SpecProvider == InitProviderSession /\ [][NextProvider]_vars

\* two tills selling B, where a receipt may also be closed without "Done"
NextRetry ==
  \/ NextPos
  \/ \E c \in Clients : dismissReceipt(c)

SpecRetry == InitRace /\ [][NextRetry]_vars
====
